---- MODULE Spec2Model ----
(***************************************************************************)
(* A model of the MOS 6502 interpreter core of rust-nes: the instruction   *)
(* decoder (instruction.rs), the address utilities (utils.rs) and the CPU  *)
(* with its operand resolver and execution unit (main.rs).                 *)
(*                                                                         *)
(* Integers keep the widths of the source: u8 values are 0..255, u16       *)
(* values 0..65535.  A usize that results from casting a negative i32 is   *)
(* kept as that negative integer: it stands for 2^64 + v, which is what    *)
(* the cast produces, and it is congruent to v modulo 65536.               *)
(*                                                                         *)
(* Arithmetic written with +, - and += on u8/u16/usize panics on overflow  *)
(* in a build with overflow checks and wraps in a build without them; the  *)
(* variable build records which of the two builds is running.              *)
(***************************************************************************)
EXTENDS Integers, Naturals, Sequences, FiniteSets, TLC

VARIABLES
  x, y, a,       \* CPU6502.x, .y, .a : u8
  pc,            \* CPU6502.pc : u16
  sp,            \* CPU6502.sp : u8
  cycles,        \* CPU6502.cycles : usize
  flags,         \* CPU6502.flags : CPUFlags
  memory,        \* CPU6502.memory, as the bytes that differ from the loaded image
  status,        \* "running", or "panicked" once a panic has unwound the run
  panic_message, \* which panic! (or failed check) ended the run, "" while running
  build,         \* "debug" (overflow checks on) or "release" (wrapping)
  line_no,       \* the harness loop counter: number of load_and_execute calls so far
  log_lines,     \* the number of lines of the log the harness loop iterates over
  last           \* the instruction of the last load_and_execute, the state it started from
                 \* and the trace line rendered from it, and the same of the calls before it

vars ==
  <<x, y, a, pc, sp, cycles, flags, memory, status, panic_message, build, line_no, log_lines,
    last>>

\* ---------------------------------------------------------------- bounds
\* number of instructions the harness loop runs
MaxLines == 2

\* number of instructions the harness loop runs over nested subroutine calls
NestDepth == 3

\* ------------------------------------------------------------- constants
MEMORY_SIZE == 65536
STACK_PAGE == 256

Byte == 0 .. 255
Builds == {"debug", "release"}

\* ------------------------------------------------------- bit arithmetic
\* bit i of a byte
Bit(b, i) == (b \div (2 ^ i)) % 2

\* the u8 operators &, |, ^ and ! of the source
BitAnd(p, q) ==
  Bit(p,0)*Bit(q,0) + 2*Bit(p,1)*Bit(q,1) + 4*Bit(p,2)*Bit(q,2) + 8*Bit(p,3)*Bit(q,3)
  + 16*Bit(p,4)*Bit(q,4) + 32*Bit(p,5)*Bit(q,5) + 64*Bit(p,6)*Bit(q,6) + 128*Bit(p,7)*Bit(q,7)

BitXor(p, q) ==
  ((Bit(p,0)+Bit(q,0)) % 2) + 2*((Bit(p,1)+Bit(q,1)) % 2) + 4*((Bit(p,2)+Bit(q,2)) % 2)
  + 8*((Bit(p,3)+Bit(q,3)) % 2) + 16*((Bit(p,4)+Bit(q,4)) % 2) + 32*((Bit(p,5)+Bit(q,5)) % 2)
  + 64*((Bit(p,6)+Bit(q,6)) % 2) + 128*((Bit(p,7)+Bit(q,7)) % 2)

BitOr(p, q) == p + q - BitAnd(p, q)

BitNot(p) == 255 - p

\* bool as u8
AsU8(flag) == IF flag THEN 1 ELSE 0

\* u8 as i8
AsI8(b) == IF b >= 128 THEN b - 256 ELSE b

\* ---------------------------------------------------------------- utils
to_address_from_bytes(lo, hi) ==
  LET big_byte == hi
      little_byte == lo
      address == big_byte * 256
  IN  address + little_byte

\* both arguments are cast to u16 before the comparison
was_page_boundary_crossed(address, indexed_address) ==
  ((address % 65536) \div 256) # ((indexed_address % 65536) \div 256)

is_negative(byte) == AsI8(byte) < 0

is_zero(byte) == byte = 0

\* to_bytes_from_address is imported by main.rs from utils but its body is
\* not part of the sources; it is the inverse of to_address_from_bytes
to_bytes_from_address(address) ==
  [lo |-> address % 256, hi |-> (address \div 256) % 256]

\* ------------------------------------------------------------- CPUFlags
CPUFlags_new ==
  [carry |-> FALSE, zero |-> FALSE, interrupt_disable |-> FALSE, decimal_mode |-> FALSE,
   break_command |-> FALSE, overflow |-> FALSE, negative |-> FALSE]

set_from_byte(byte) ==
  [carry             |-> Bit(byte, 0) = 1,
   zero              |-> Bit(byte, 1) = 1,
   interrupt_disable |-> Bit(byte, 2) = 1,
   decimal_mode      |-> Bit(byte, 3) = 1,
   break_command     |-> Bit(byte, 4) = 1,
   \* bit 5 is ignored
   overflow          |-> Bit(byte, 6) = 1,
   negative          |-> Bit(byte, 7) = 1]

from_byte(byte) == set_from_byte(byte)

\* as_byte with bit 5 emitted as 0
as_byte_without_bit5(f) ==
  LET b7 == AsU8(f.negative)
      b6 == b7 * 2 + AsU8(f.overflow)
      b5 == b6 * 2
      b4 == b5 * 2 + AsU8(f.break_command)
      b3 == b4 * 2 + AsU8(f.decimal_mode)
      b2 == b3 * 2 + AsU8(f.interrupt_disable)
      b1 == b2 * 2 + AsU8(f.zero)
  IN  b1 * 2 + AsU8(f.carry)

as_byte(f) ==
  LET b7 == AsU8(f.negative)
      b6 == b7 * 2 + AsU8(f.overflow)
      b5 == b6 * 2 + 1
      b4 == b5 * 2 + AsU8(f.break_command)
      b3 == b4 * 2 + AsU8(f.decimal_mode)
      b2 == b3 * 2 + AsU8(f.interrupt_disable)
      b1 == b2 * 2 + AsU8(f.zero)
  IN  b1 * 2 + AsU8(f.carry)

\* ---------------------------------------------------------------- memory
\* The harness hands the CPU a 65,536-byte buffer and fills it with
\* load_memory.  Image is the loaded 64 KiB image; the variable memory maps
\* exactly the addresses whose byte differs from the image.
Image(addr) == (addr + 3 * (addr \div 256)) % 256

\* memory[addr] for 0 <= addr < MEMORY_SIZE
Read(mem, addr) == IF addr \in DOMAIN mem THEN mem[addr] ELSE Image(addr)

\* memory[addr] = byte
Write(mem, addr, byte) ==
  [p \in ((DOMAIN mem) \ {addr}) \cup (IF byte = Image(addr) THEN {} ELSE {addr}) |->
     IF p = addr THEN byte ELSE mem[p]]

\* load_memory(location, data): data is a sequence of bytes
RECURSIVE load_memory(_, _, _)
load_memory(mem, location, data) ==
  IF data = <<>> THEN mem
  ELSE load_memory(Write(mem, location, Head(data)), location + 1, Tail(data))

\* an index is inside the slice
InBounds(index) == index >= 0 /\ index < MEMORY_SIZE

\* ----------------------------------------------------------- Instruction
AddressingModes ==
  {"Accumulator", "Immediate", "Implied", "Relative", "Absolute", "AbsoluteIndexedX",
   "AbsoluteIndexedY", "ZeroPage", "ZeroPageIndexedX", "ZeroPageIndexedY", "Indirect",
   "IndexedIndirect", "IndirectIndexed"}

Row(byte, op, mode, cyc, wid) ==
  [opcode_byte |-> byte, opcode |-> op, addressing_mode |-> mode, cycles |-> cyc, width |-> wid]

\* the arms of the match in Instruction::decode, in source order
OpcodeTable ==
  105 :> Row(105, "ADC", "Immediate", 2, 2) @@
  101 :> Row(101, "ADC", "ZeroPage", 3, 2) @@
  117 :> Row(117, "ADC", "ZeroPageIndexedX", 4, 2) @@
  109 :> Row(109, "ADC", "Absolute", 4, 3) @@
  125 :> Row(125, "ADC", "AbsoluteIndexedX", 4, 3) @@
  121 :> Row(121, "ADC", "AbsoluteIndexedY", 4, 3) @@
  97 :> Row(97, "ADC", "IndexedIndirect", 6, 2) @@
  113 :> Row(113, "ADC", "IndirectIndexed", 5, 2) @@
  41 :> Row(41, "AND", "Immediate", 2, 2) @@
  37 :> Row(37, "AND", "ZeroPage", 3, 2) @@
  53 :> Row(53, "AND", "ZeroPageIndexedX", 4, 2) @@
  45 :> Row(45, "AND", "Absolute", 4, 3) @@
  61 :> Row(61, "AND", "AbsoluteIndexedX", 4, 3) @@
  57 :> Row(57, "AND", "AbsoluteIndexedY", 4, 3) @@
  33 :> Row(33, "AND", "IndexedIndirect", 6, 2) @@
  49 :> Row(49, "AND", "IndirectIndexed", 5, 2) @@
  10 :> Row(10, "ASL", "Accumulator", 2, 1) @@
  6 :> Row(6, "ASL", "ZeroPage", 5, 2) @@
  22 :> Row(22, "ASL", "ZeroPageIndexedX", 6, 2) @@
  14 :> Row(14, "ASL", "Absolute", 6, 3) @@
  30 :> Row(30, "ASL", "AbsoluteIndexedX", 7, 3) @@
  144 :> Row(144, "BCC", "Relative", 2, 2) @@
  176 :> Row(176, "BCS", "Relative", 2, 2) @@
  240 :> Row(240, "BEQ", "Relative", 2, 2) @@
  36 :> Row(36, "BIT", "ZeroPage", 3, 2) @@
  44 :> Row(44, "BIT", "Absolute", 4, 3) @@
  48 :> Row(48, "BMI", "Relative", 2, 2) @@
  208 :> Row(208, "BNE", "Relative", 2, 2) @@
  16 :> Row(16, "BPL", "Relative", 2, 2) @@
  0 :> Row(0, "BRK", "Implied", 7, 1) @@
  80 :> Row(80, "BVC", "Relative", 2, 2) @@
  112 :> Row(112, "BVS", "Relative", 2, 2) @@
  24 :> Row(24, "CLC", "Implied", 2, 1) @@
  216 :> Row(216, "CLD", "Implied", 2, 1) @@
  88 :> Row(88, "CLI", "Implied", 2, 1) @@
  184 :> Row(184, "CLV", "Implied", 2, 1) @@
  201 :> Row(201, "CMP", "Immediate", 2, 2) @@
  197 :> Row(197, "CMP", "ZeroPage", 3, 2) @@
  213 :> Row(213, "CMP", "ZeroPageIndexedX", 4, 2) @@
  205 :> Row(205, "CMP", "Absolute", 4, 3) @@
  221 :> Row(221, "CMP", "AbsoluteIndexedX", 4, 3) @@
  217 :> Row(217, "CMP", "AbsoluteIndexedY", 4, 3) @@
  193 :> Row(193, "CMP", "IndexedIndirect", 6, 2) @@
  209 :> Row(209, "CMP", "IndirectIndexed", 5, 2) @@
  224 :> Row(224, "CPX", "Immediate", 2, 2) @@
  228 :> Row(228, "CPX", "ZeroPage", 3, 2) @@
  236 :> Row(236, "CPX", "Absolute", 4, 2) @@
  192 :> Row(192, "CPY", "Immediate", 2, 2) @@
  196 :> Row(196, "CPY", "ZeroPage", 3, 2) @@
  204 :> Row(204, "CPY", "Absolute", 4, 2) @@
  198 :> Row(198, "DEC", "ZeroPage", 5, 2) @@
  214 :> Row(214, "DEC", "ZeroPageIndexedX", 6, 2) @@
  206 :> Row(206, "DEC", "Absolute", 6, 3) @@
  222 :> Row(222, "DEC", "AbsoluteIndexedX", 7, 3) @@
  202 :> Row(202, "DEX", "Implied", 2, 1) @@
  136 :> Row(136, "DEY", "Implied", 2, 1) @@
  73 :> Row(73, "EOR", "Immediate", 2, 2) @@
  69 :> Row(69, "EOR", "ZeroPage", 3, 2) @@
  85 :> Row(85, "EOR", "ZeroPageIndexedX", 4, 2) @@
  77 :> Row(77, "EOR", "Absolute", 4, 3) @@
  93 :> Row(93, "EOR", "AbsoluteIndexedX", 4, 3) @@
  89 :> Row(89, "EOR", "AbsoluteIndexedY", 4, 3) @@
  65 :> Row(65, "EOR", "IndexedIndirect", 6, 2) @@
  81 :> Row(81, "EOR", "IndirectIndexed", 5, 2) @@
  230 :> Row(230, "INC", "ZeroPage", 5, 2) @@
  246 :> Row(246, "INC", "ZeroPageIndexedX", 6, 2) @@
  238 :> Row(238, "INC", "Absolute", 6, 3) @@
  254 :> Row(254, "INC", "AbsoluteIndexedX", 7, 3) @@
  232 :> Row(232, "INX", "Implied", 2, 1) @@
  200 :> Row(200, "INY", "Implied", 2, 1) @@
  76 :> Row(76, "JMP", "Absolute", 3, 3) @@
  108 :> Row(108, "JMP", "Indirect", 5, 3) @@
  32 :> Row(32, "JSR", "Absolute", 6, 3) @@
  169 :> Row(169, "LDA", "Immediate", 2, 2) @@
  165 :> Row(165, "LDA", "ZeroPage", 3, 2) @@
  181 :> Row(181, "LDA", "ZeroPageIndexedX", 4, 2) @@
  173 :> Row(173, "LDA", "Absolute", 4, 3) @@
  189 :> Row(189, "LDA", "AbsoluteIndexedX", 4, 3) @@
  185 :> Row(185, "LDA", "AbsoluteIndexedY", 4, 3) @@
  161 :> Row(161, "LDA", "IndexedIndirect", 6, 2) @@
  177 :> Row(177, "LDA", "IndirectIndexed", 5, 2) @@
  162 :> Row(162, "LDX", "Immediate", 2, 2) @@
  166 :> Row(166, "LDX", "ZeroPage", 3, 2) @@
  182 :> Row(182, "LDX", "ZeroPageIndexedY", 4, 2) @@
  174 :> Row(174, "LDX", "Absolute", 4, 3) @@
  190 :> Row(190, "LDX", "AbsoluteIndexedY", 4, 3) @@
  160 :> Row(160, "LDY", "Immediate", 2, 2) @@
  164 :> Row(164, "LDY", "ZeroPage", 3, 2) @@
  180 :> Row(180, "LDY", "ZeroPageIndexedX", 4, 2) @@
  172 :> Row(172, "LDY", "Absolute", 4, 3) @@
  188 :> Row(188, "LDX", "AbsoluteIndexedY", 4, 3) @@
  74 :> Row(74, "LSR", "Accumulator", 2, 1) @@
  70 :> Row(70, "LSR", "ZeroPage", 5, 2) @@
  86 :> Row(86, "LSR", "ZeroPageIndexedX", 6, 2) @@
  78 :> Row(78, "LSR", "Absolute", 6, 3) @@
  94 :> Row(94, "LSR", "AbsoluteIndexedX", 7, 3) @@
  234 :> Row(234, "NOP", "Implied", 2, 1) @@
  9 :> Row(9, "ORA", "Immediate", 2, 2) @@
  5 :> Row(5, "ORA", "ZeroPage", 3, 2) @@
  21 :> Row(21, "ORA", "ZeroPageIndexedX", 4, 2) @@
  13 :> Row(13, "ORA", "Absolute", 4, 3) @@
  29 :> Row(29, "ORA", "AbsoluteIndexedX", 4, 3) @@
  25 :> Row(25, "ORA", "AbsoluteIndexedY", 4, 3) @@
  1 :> Row(1, "ORA", "IndexedIndirect", 6, 2) @@
  17 :> Row(17, "ORA", "IndirectIndexed", 5, 2) @@
  72 :> Row(72, "PHA", "Implied", 3, 1) @@
  8 :> Row(8, "PHP", "Implied", 3, 1) @@
  104 :> Row(104, "PLA", "Implied", 4, 1) @@
  40 :> Row(40, "PLP", "Implied", 4, 1) @@
  42 :> Row(42, "ROL", "Accumulator", 2, 1) @@
  38 :> Row(38, "ROL", "ZeroPage", 5, 2) @@
  54 :> Row(54, "ROL", "ZeroPageIndexedX", 6, 2) @@
  46 :> Row(46, "ROL", "Absolute", 6, 3) @@
  62 :> Row(62, "ROL", "AbsoluteIndexedX", 7, 3) @@
  106 :> Row(106, "ROR", "Accumulator", 2, 1) @@
  102 :> Row(102, "ROR", "ZeroPage", 5, 2) @@
  118 :> Row(118, "ROR", "ZeroPageIndexedX", 6, 2) @@
  110 :> Row(110, "ROR", "Absolute", 6, 3) @@
  126 :> Row(126, "ROR", "AbsoluteIndexedX", 7, 3) @@
  64 :> Row(64, "RTI", "Implied", 6, 1) @@
  96 :> Row(96, "RTS", "Implied", 6, 1) @@
  233 :> Row(233, "SBC", "Immediate", 2, 2) @@
  229 :> Row(229, "SBC", "ZeroPage", 3, 2) @@
  245 :> Row(245, "SBC", "ZeroPageIndexedX", 3, 2) @@
  237 :> Row(237, "SBC", "Absolute", 4, 2) @@
  253 :> Row(253, "SBC", "AbsoluteIndexedX", 4, 3) @@
  249 :> Row(249, "SBC", "AbsoluteIndexedY", 4, 3) @@
  225 :> Row(225, "SBC", "IndexedIndirect", 6, 2) @@
  241 :> Row(241, "SBC", "IndirectIndexed", 5, 2) @@
  56 :> Row(56, "SEC", "Implied", 2, 1) @@
  248 :> Row(248, "SED", "Implied", 2, 1) @@
  120 :> Row(120, "SEI", "Implied", 2, 1) @@
  133 :> Row(133, "STA", "ZeroPage", 3, 2) @@
  149 :> Row(149, "STA", "ZeroPageIndexedX", 4, 2) @@
  141 :> Row(141, "STA", "Absolute", 4, 3) @@
  157 :> Row(157, "STA", "AbsoluteIndexedX", 5, 3) @@
  153 :> Row(153, "STA", "AbsoluteIndexedY", 5, 3) @@
  129 :> Row(129, "STA", "IndexedIndirect", 6, 2) @@
  145 :> Row(145, "STA", "IndirectIndexed", 6, 2) @@
  134 :> Row(134, "STX", "ZeroPage", 3, 2) @@
  150 :> Row(150, "STX", "ZeroPageIndexedY", 4, 2) @@
  142 :> Row(142, "STX", "Absolute", 4, 3) @@
  132 :> Row(132, "STY", "ZeroPage", 3, 2) @@
  148 :> Row(148, "STY", "ZeroPageIndexedX", 4, 2) @@
  140 :> Row(140, "STY", "Absolute", 4, 3) @@
  170 :> Row(170, "TAX", "Implied", 2, 1) @@
  168 :> Row(168, "TAY", "Implied", 2, 1) @@
  186 :> Row(186, "TSX", "Implied", 2, 1) @@
  138 :> Row(138, "TXA", "Implied", 2, 1) @@
  154 :> Row(154, "TXS", "Implied", 2, 1) @@
  152 :> Row(152, "TYA", "Implied", 2, 1)


\* the text of a panic and the value it formats; NoPanic while the run is alive
PanicMessage(text, arg) == [text |-> text, arg |-> arg]

NoPanic == PanicMessage("", -1)

\* Instruction::decode(memory, memory_position).  The opcode byte and the
\* two data bytes are indexed before the match; an index outside the slice
\* panics, and so does a byte without an arm.
decode(mem, memory_position) ==
  LET index == memory_position IN
  IF ~InBounds(index) \/ ~InBounds(index + 1) \/ ~InBounds(index + 2)
  THEN [ok |-> FALSE,
        message |-> PanicMessage("index out of bounds",
                                 IF ~InBounds(index) THEN index
                                 ELSE IF ~InBounds(index + 1) THEN index + 1 ELSE index + 2)]
  ELSE LET opcode_byte == Read(mem, index)
           data == [lo |-> Read(mem, index + 1), hi |-> Read(mem, index + 2)]
       IN  IF opcode_byte \in DOMAIN OpcodeTable
           THEN [ok |-> TRUE, message |-> NoPanic,
                 opcode_byte |-> opcode_byte,
                 opcode |-> OpcodeTable[opcode_byte].opcode,
                 addressing_mode |-> OpcodeTable[opcode_byte].addressing_mode,
                 cycles |-> OpcodeTable[opcode_byte].cycles,
                 width |-> OpcodeTable[opcode_byte].width,
                 data |-> data]
           ELSE [ok |-> FALSE, message |-> PanicMessage("Unsupported instruction decoded", opcode_byte)]

\* ------------------------------------------------------------- CPU6502
\* The CPU as one value, threaded through the statements of a handler.
CPU ==
  [x |-> x, y |-> y, a |-> a, pc |-> pc, sp |-> sp, cycles |-> cycles, flags |-> flags,
   memory |-> memory, status |-> status, message |-> panic_message]

Running(s) == s.status = "running"

\* panic!: the run unwinds with the state as the statements so far left it
Panic(s, text, arg) ==
  IF Running(s) THEN [s EXCEPT !.status = "panicked", !.message = PanicMessage(text, arg)] ELSE s

\* p + q, p - q and p += q on an unsigned integer of the given modulus:
\* out of range panics under overflow checks and wraps without them
Overflows(v, modulus) == v < 0 \/ v >= modulus

Wrap(v, modulus) == v % modulus

\* CPU6502::new(memory)
CPU6502_new(mem) ==
  [x |-> 0, y |-> 0, a |-> 0, pc |-> 0, cycles |-> 0, sp |-> 255, flags |-> CPUFlags_new,
   memory |-> mem, status |-> "running", message |-> NoPanic]

push_on_stack(s, byte) ==
  IF ~Running(s) THEN s
  ELSE LET address == STACK_PAGE + s.sp
           s1 == [s EXCEPT !.memory = Write(s.memory, address, byte)]
       IN  IF Overflows(s.sp - 1, 256) /\ build = "debug"
           THEN Panic(s1, "attempt to subtract with overflow", -1)
           ELSE [s1 EXCEPT !.sp = Wrap(s.sp - 1, 256)]

\* pop_from_stack reading the byte before it moves the stack pointer
pop_from_stack_before_increment(s) ==
  IF ~Running(s) THEN [cpu |-> s, byte |-> 0]
  ELSE IF Overflows(s.sp + 1, 256) /\ build = "debug"
       THEN [cpu |-> Panic(s, "attempt to add with overflow", -1), byte |-> 0]
       ELSE [cpu |-> [s EXCEPT !.sp = Wrap(s.sp + 1, 256)],
             byte |-> Read(s.memory, STACK_PAGE + s.sp)]

\* returns the CPU after the pop and the byte popped
pop_from_stack(s) ==
  IF ~Running(s) THEN [cpu |-> s, byte |-> 0]
  ELSE IF Overflows(s.sp + 1, 256) /\ build = "debug"
       THEN [cpu |-> Panic(s, "attempt to add with overflow", -1), byte |-> 0]
       ELSE LET s1 == [s EXCEPT !.sp = Wrap(s.sp + 1, 256)]
                address == STACK_PAGE + s1.sp
            IN  [cpu |-> s1, byte |-> Read(s1.memory, address)]

set_flags(s, byte) ==
  [s EXCEPT !.flags.zero = is_zero(byte), !.flags.negative = is_negative(byte)]

\* compare_and_set_flags with the carry set only when the register is greater
compare_and_set_flags_strict(s, register_byte, memory_byte) ==
  LET result == Wrap(register_byte - memory_byte, 256)
      s1 == set_flags(s, result)
  IN  [s1 EXCEPT !.flags.carry = register_byte > memory_byte]

compare_and_set_flags(s, register_byte, memory_byte) ==
  LET result == Wrap(register_byte - memory_byte, 256)
      s1 == set_flags(s, result)
  IN  [s1 EXCEPT !.flags.carry = ~(register_byte < memory_byte)]

\* add_extra_cycles charging two cycles for a crossing
add_extra_cycles_charged_twice(s, addressing_mode, page_boundary_crossed) ==
  IF addressing_mode \in {"AbsoluteIndexedX", "AbsoluteIndexedY", "IndirectIndexed"}
  THEN IF page_boundary_crossed THEN [s EXCEPT !.cycles = s.cycles + 2] ELSE s
  ELSE s

add_extra_cycles(s, addressing_mode, page_boundary_crossed) ==
  IF addressing_mode \in {"AbsoluteIndexedX", "AbsoluteIndexedY", "IndirectIndexed"}
  THEN IF page_boundary_crossed THEN [s EXCEPT !.cycles = s.cycles + 1] ELSE s
  ELSE s

\* add_with_carry with the overflow test reduced to "the result's sign differs
\* from the operand's", the same-sign test on the addends left out
add_with_carry_sign_unchecked(s, operand) ==
  LET result == Wrap(Wrap(s.a + operand, 256) + AsU8(s.flags.carry), 256)
      s1 == set_flags(s, result)
      s2 == [s1 EXCEPT !.flags.carry = s.a > result]
      s3 == [s2 EXCEPT !.flags.overflow = BitAnd(128, BitXor(operand, result)) = 128]
      s4 == [s3 EXCEPT !.a = result]
  IN  set_flags(s4, s4.a)

\* add_with_carry honouring decimal mode: with D set a low digit above 9 is
\* carried into the high digit
add_with_carry_decimal(s, operand) ==
  LET binary == Wrap(Wrap(s.a + operand, 256) + AsU8(s.flags.carry), 256)
      result == IF s.flags.decimal_mode /\ binary % 16 > 9 THEN Wrap(binary + 6, 256) ELSE binary
      s1 == set_flags(s, result)
      s2 == [s1 EXCEPT !.flags.carry = s.a > result]
      s3 == [s2 EXCEPT !.flags.overflow =
               BitAnd(BitAnd(BitNot(BitXor(s.a, operand)), 128), BitXor(operand, result)) = 128]
      s4 == [s3 EXCEPT !.a = result]
  IN  set_flags(s4, s4.a)

add_with_carry(s, operand) ==
  LET result == Wrap(Wrap(s.a + operand, 256) + AsU8(s.flags.carry), 256)
      s1 == set_flags(s, result)
      s2 == [s1 EXCEPT !.flags.carry = s.a > result]
      \* overflow occurs when the operands have the same sign bit, but the result does not
      s3 == [s2 EXCEPT !.flags.overflow =
               BitAnd(BitAnd(BitNot(BitXor(s.a, operand)), 128), BitXor(operand, result)) = 128]
      s4 == [s3 EXCEPT !.a = result]
  IN  set_flags(s4, s4.a)

\* the result of an operand resolver: ok is FALSE when it panicked
Resolved(addr, crossed) == [ok |-> TRUE, message |-> NoPanic, address |-> addr, crossed |-> crossed]

Unresolved(text, arg) == [ok |-> FALSE, message |-> PanicMessage(text, arg), address |-> 0, crossed |-> FALSE]

\* the arms of the match in CPU6502::get_address_operand, one operator each
Absolute_address(s, data) ==
  LET address == to_address_from_bytes(data.lo, data.hi)
  IN  Resolved(address, FALSE)

AbsoluteIndexedX_address(s, data) ==
  LET address == to_address_from_bytes(data.lo, data.hi)
      indexed_address == address + s.x
  IN  Resolved(address, was_page_boundary_crossed(address, indexed_address))

AbsoluteIndexedY_address(s, data) ==
  LET address == to_address_from_bytes(data.lo, data.hi)
      indexed_address == address + s.x
  IN  Resolved(address, was_page_boundary_crossed(address, indexed_address))

ZeroPage_address(s, data) ==
  LET address == data.lo
  IN  Resolved(address, FALSE)

\* (instruction_data.0 + self.x) is a u8 addition
ZeroPageIndexedX_address(s, data) ==
  IF Overflows(data.lo + s.x, 256) /\ build = "debug"
  THEN Unresolved("attempt to add with overflow", -1)
  ELSE Resolved(Wrap(data.lo + s.x, 256), FALSE)

ZeroPageIndexedY_address(s, data) ==
  IF Overflows(data.lo + s.y, 256) /\ build = "debug"
  THEN Unresolved("attempt to add with overflow", -1)
  ELSE Resolved(Wrap(data.lo + s.y, 256), FALSE)

\* self.memory[indirect_address+1] is a checked slice index
Indirect_address(s, data) ==
  LET indirect_address == to_address_from_bytes(data.lo, data.hi)
  IN  IF ~InBounds(indirect_address + 1)
      THEN Unresolved("index out of bounds", indirect_address + 1)
      ELSE Resolved(to_address_from_bytes(Read(s.memory, indirect_address),
                                          Read(s.memory, indirect_address + 1)), FALSE)

\* IndexedIndirect with the pointer's second byte read from indirect_address + 1
\* on usize, so that a pointer at 0xFF takes its high byte from 0x0100
IndexedIndirect_address_unwrapped(s, data) ==
  LET indirect_address == Wrap(data.lo + s.x, 256)
      address == to_address_from_bytes(Read(s.memory, indirect_address),
                                       Read(s.memory, indirect_address + 1))
  IN  Resolved(address, FALSE)

IndexedIndirect_address(s, data) ==
  LET indirect_address == Wrap(data.lo + s.x, 256)
      address == to_address_from_bytes(Read(s.memory, indirect_address),
                                       Read(s.memory, Wrap(indirect_address + 1, 256)))
  IN  Resolved(address, FALSE)

IndirectIndexed_address(s, data) ==
  LET address == to_address_from_bytes(Read(s.memory, data.lo),
                                       Read(s.memory, Wrap(data.lo + 1, 256)))
      indexed_address == Wrap(address + s.y, 65536)
  IN  Resolved(indexed_address, was_page_boundary_crossed(address, indexed_address))

\* Relative with the page of the target compared against the page of the
\* branch instruction itself instead of PC + 2
Relative_address_page_of_pc(s, data) ==
  LET offset == AsI8(data.lo) IN
  IF Overflows(s.pc + 2, 65536) /\ build = "debug"
  THEN Unresolved("attempt to add with overflow", -1)
  ELSE LET next_pc == Wrap(s.pc + 2, 65536)
           address == next_pc + offset
       IN  Resolved(address, was_page_boundary_crossed(s.pc, address))

\* (self.pc + 2) is a u16 addition; pc + offset is an i32 cast to usize
Relative_address(s, data) ==
  LET offset == AsI8(data.lo) IN
  IF Overflows(s.pc + 2, 65536) /\ build = "debug"
  THEN Unresolved("attempt to add with overflow", -1)
  ELSE LET next_pc == Wrap(s.pc + 2, 65536)
           address == next_pc + offset
       IN  Resolved(address, was_page_boundary_crossed(next_pc, address))

\* CPU6502::get_address_operand(instruction_data, addressing_mode)
get_address_operand(s, data, mode) ==
  CASE mode = "Absolute" -> Absolute_address(s, data)
    [] mode = "AbsoluteIndexedX" -> AbsoluteIndexedX_address(s, data)
    [] mode = "AbsoluteIndexedY" -> AbsoluteIndexedY_address(s, data)
    [] mode = "ZeroPage" -> ZeroPage_address(s, data)
    [] mode = "ZeroPageIndexedX" -> ZeroPageIndexedX_address(s, data)
    [] mode = "ZeroPageIndexedY" -> ZeroPageIndexedY_address(s, data)
    [] mode = "Indirect" -> Indirect_address(s, data)
    [] mode = "IndexedIndirect" -> IndexedIndirect_address(s, data)
    [] mode = "IndirectIndexed" -> IndirectIndexed_address(s, data)
    [] mode = "Relative" -> Relative_address(s, data)
    [] OTHER -> Unresolved("Can't resolve a memory address for addressing mode", -1)

\* the result of get_value_operand
Value(byte, crossed) == [ok |-> TRUE, message |-> NoPanic, value |-> byte, crossed |-> crossed]

NoValue(message) == [ok |-> FALSE, message |-> message, value |-> 0, crossed |-> FALSE]

\* CPU6502::get_value_operand(instruction_data, addressing_mode)
get_value_operand(s, data, mode) ==
  CASE mode = "Immediate" -> Value(data.lo, FALSE)
    [] mode = "Accumulator" -> Value(s.a, FALSE)
    [] mode = "Implied" -> NoValue(PanicMessage("Cannot resolve operand for addressing mode", -1))
    [] OTHER ->
         LET r == get_address_operand(s, data, mode)
         IN  IF ~r.ok THEN NoValue(r.message)
             ELSE IF ~InBounds(r.address) THEN NoValue(PanicMessage("index out of bounds", r.address))
             ELSE Value(Read(s.memory, r.address), r.crossed)

\* the panic of a failed operand resolution
PanicOf(s, r) == Panic(s, r.message.text, r.message.arg)

\* (address - instruction.width) as u16, on usize: an address below the
\* width underflows (a negative address stands for a wrapped, huge usize)
pre_decrement(s, address, width) ==
  IF address >= 0 /\ address - width < 0 /\ build = "debug"
  THEN Panic(s, "attempt to subtract with overflow", -1)
  ELSE [s EXCEPT !.pc = Wrap(address - width, 65536)]

\* branch_on_condition with the taken cycle charged outside the if
branch_on_condition_always_charged(s, condition, instruction) ==
  IF condition
  THEN LET r == get_address_operand(s, instruction.data, instruction.addressing_mode)
       IN  IF ~r.ok THEN PanicOf(s, r)
           ELSE LET s1 == pre_decrement(s, r.address, instruction.width)
                    s2 == [s1 EXCEPT !.cycles = s1.cycles + 1]
                IN  IF ~Running(s1) THEN s1
                    ELSE IF r.crossed THEN [s2 EXCEPT !.cycles = s2.cycles + 1] ELSE s2
  ELSE [s EXCEPT !.cycles = s.cycles + 1]

branch_on_condition(s, condition, instruction) ==
  IF condition
  THEN LET r == get_address_operand(s, instruction.data, instruction.addressing_mode)
       IN  IF ~r.ok THEN PanicOf(s, r)
           ELSE LET s1 == pre_decrement(s, r.address, instruction.width)
                    s2 == [s1 EXCEPT !.cycles = s1.cycles + 1]
                IN  IF ~Running(s1) THEN s1
                    ELSE IF r.crossed THEN [s2 EXCEPT !.cycles = s2.cycles + 1] ELSE s2
  ELSE s

\* the opcodes whose arm reads a value operand and then charges the page penalty
ReadOpcodes == {"ADC", "AND", "CMP", "EOR", "LDA", "LDX", "LDY", "ORA", "SBC"}

\* the statements of such an arm between get_value_operand and add_extra_cycles
apply_operand(s, opcode, operand) ==
  CASE opcode = "ADC" -> add_with_carry(s, operand)
    [] opcode = "SBC" -> add_with_carry(s, BitNot(operand))
    [] opcode = "AND" -> LET s1 == [s EXCEPT !.a = BitAnd(s.a, operand)] IN set_flags(s1, s1.a)
    [] opcode = "EOR" -> LET s1 == [s EXCEPT !.a = BitXor(s.a, operand)] IN set_flags(s1, s1.a)
    [] opcode = "ORA" -> LET s1 == [s EXCEPT !.a = BitOr(s.a, operand)] IN set_flags(s1, s1.a)
    [] opcode = "CMP" -> compare_and_set_flags(s, s.a, operand)
    [] opcode = "CPX" -> compare_and_set_flags(s, s.x, operand)
    [] opcode = "CPY" -> compare_and_set_flags(s, s.y, operand)
    [] opcode = "LDA" -> LET s1 == [s EXCEPT !.a = operand] IN set_flags(s1, s1.a)
    [] opcode = "LDX" -> [set_flags(s, operand) EXCEPT !.x = operand]
    [] opcode = "LDY" -> [set_flags(s, operand) EXCEPT !.y = operand]
    [] opcode = "BIT" ->
         [s EXCEPT !.flags.negative = Bit(operand, 7) = 1,
                   !.flags.overflow = Bit(operand, 6) = 1,
                   !.flags.zero = BitAnd(s.a, operand) = 0]

\* the arms ADC AND BIT CMP CPX CPY EOR LDA LDX LDY ORA SBC
read_arm(s, instruction) ==
  LET v == get_value_operand(s, instruction.data, instruction.addressing_mode)
  IN  IF ~v.ok THEN PanicOf(s, v)
      ELSE LET s1 == apply_operand(s, instruction.opcode, v.value)
           IN  IF instruction.opcode \in ReadOpcodes
               THEN add_extra_cycles(s1, instruction.addressing_mode, v.crossed)
               ELSE s1

\* the new carry and the new byte of a shift or rotate
shifted(opcode, byte, carry) ==
  CASE opcode = "ASL" -> [carry |-> BitAnd(byte, 128) = 128, byte |-> Wrap(byte * 2, 256)]
    [] opcode = "LSR" -> [carry |-> BitAnd(byte, 1) = 1, byte |-> byte \div 2]
    [] opcode = "ROL" -> [carry |-> BitAnd(byte, 128) = 128, byte |-> Wrap(byte * 2, 256) + carry]
    [] opcode = "ROR" -> [carry |-> BitAnd(byte, 1) = 1, byte |-> (byte \div 2) + Wrap(carry * 128, 256)]

\* the arms ASL LSR ROL ROR without the test for Accumulator mode: the target
\* is always asked from get_address_operand
shift_arm_always_address(s, instruction) ==
  LET carry == AsU8(s.flags.carry)
      r == get_address_operand(s, instruction.data, instruction.addressing_mode)
  IN  IF ~r.ok THEN PanicOf(s, r)
      ELSE IF ~InBounds(r.address) THEN Panic(s, "index out of bounds", r.address)
      ELSE LET byte == Read(s.memory, r.address)
               n == shifted(instruction.opcode, byte, carry)
               s1 == [s EXCEPT !.flags.carry = n.carry,
                               !.memory = Write(s.memory, r.address, n.byte)]
           IN  set_flags(s1, Read(s1.memory, r.address))

\* the arms ASL LSR ROL ROR
shift_arm(s, instruction) ==
  LET carry == AsU8(s.flags.carry) IN
  IF instruction.addressing_mode # "Accumulator"
  THEN LET r == get_address_operand(s, instruction.data, instruction.addressing_mode)
       IN  IF ~r.ok THEN PanicOf(s, r)
           ELSE IF ~InBounds(r.address) THEN Panic(s, "index out of bounds", r.address)
           ELSE LET byte == Read(s.memory, r.address)
                    n == shifted(instruction.opcode, byte, carry)
                    s1 == [s EXCEPT !.flags.carry = n.carry,
                                    !.memory = Write(s.memory, r.address, n.byte)]
                IN  set_flags(s1, Read(s1.memory, r.address))
  ELSE LET v == get_value_operand(s, instruction.data, instruction.addressing_mode)
       IN  IF ~v.ok THEN PanicOf(s, v)
           ELSE LET n == shifted(instruction.opcode, v.value, carry)
                    s1 == [s EXCEPT !.flags.carry = n.carry, !.a = n.byte]
                IN  set_flags(s1, s1.a)

\* the arms INC DEC
incdec_arm(s, instruction) ==
  LET r == get_address_operand(s, instruction.data, instruction.addressing_mode)
      delta == IF instruction.opcode = "INC" THEN 1 ELSE -1
  IN  IF ~r.ok THEN PanicOf(s, r)
      ELSE IF ~InBounds(r.address) THEN Panic(s, "index out of bounds", r.address)
      ELSE LET s1 == [s EXCEPT !.memory =
                        Write(s.memory, r.address, Wrap(Read(s.memory, r.address) + delta, 256))]
           IN  set_flags(s1, Read(s1.memory, r.address))

\* the arms STA STX STY
store_arm(s, instruction) ==
  LET r == get_address_operand(s, instruction.data, instruction.addressing_mode)
      register == CASE instruction.opcode = "STA" -> s.a
                    [] instruction.opcode = "STX" -> s.x
                    [] instruction.opcode = "STY" -> s.y
  IN  IF ~r.ok THEN PanicOf(s, r)
      ELSE IF ~InBounds(r.address) THEN Panic(s, "index out of bounds", r.address)
      ELSE [s EXCEPT !.memory = Write(s.memory, r.address, register)]

\* the arm JMP
jmp_arm(s, instruction) ==
  LET r == get_address_operand(s, instruction.data, instruction.addressing_mode)
  IN  IF ~r.ok THEN PanicOf(s, r)
      ELSE pre_decrement(s, r.address, instruction.width)

\* the arm JSR
jsr_arm(s, instruction) ==
  IF Overflows(s.pc + 2, 65536) /\ build = "debug"
  THEN Panic(s, "attempt to add with overflow", -1)
  ELSE LET return_address_bytes == to_bytes_from_address(Wrap(s.pc + 2, 65536))
           s1 == push_on_stack(s, return_address_bytes.hi)
           s2 == push_on_stack(s1, return_address_bytes.lo)
           r == get_address_operand(s2, instruction.data, instruction.addressing_mode)
       IN  IF ~Running(s2) THEN s2
           ELSE IF ~r.ok THEN PanicOf(s2, r)
           ELSE pre_decrement(s2, r.address, instruction.width)

\* the arms PLP and RTI without self.flags.break_command = false
pull_flags_keeping_break(s) ==
  LET p == pop_from_stack(s)
  IN  IF ~Running(p.cpu) THEN p.cpu
      ELSE [p.cpu EXCEPT !.flags = set_from_byte(p.byte)]

\* the arms PLP and RTI up to the restored flags
pull_flags(s) ==
  LET p == pop_from_stack(s)
  IN  IF ~Running(p.cpu) THEN p.cpu
      ELSE [p.cpu EXCEPT !.flags = [set_from_byte(p.byte) EXCEPT !.break_command = FALSE]]

\* pops the low byte, then the high byte; address is the word they encode
pop_address(s) ==
  LET lo == pop_from_stack(s)
      hi == pop_from_stack(lo.cpu)
  IN  [cpu |-> hi.cpu, address |-> to_address_from_bytes(lo.byte, hi.byte)]

\* the arm RTI without self.flags.break_command = false
rti_arm_keeping_break(s) ==
  LET s1 == pull_flags_keeping_break(s)
      p == pop_address(s1)
  IN  IF ~Running(p.cpu) THEN p.cpu
      ELSE [p.cpu EXCEPT !.pc = Wrap(p.address - 1, 65536)]

\* the arm RTI
rti_arm(s) ==
  LET s1 == pull_flags(s)
      p == pop_address(s1)
  IN  IF ~Running(p.cpu) THEN p.cpu
      ELSE [p.cpu EXCEPT !.pc = Wrap(p.address - 1, 65536)]

\* the arm RTS
rts_arm(s) ==
  LET p == pop_address(s)
  IN  IF ~Running(p.cpu) THEN p.cpu ELSE [p.cpu EXCEPT !.pc = p.address]

\* the fallthrough arm written as if it retired the opcode without an effect
unsupported_arm_ignored(s, instruction) == s

\* the fallthrough arm of the match: an opcode without an arm of its own (BRK)
unsupported_arm(s, instruction) == Panic(s, "Unsupported instruction executed", -1)

\* the match of execute_instruction, before the shared PC and cycle update
execute_arm(s, instruction) ==
  LET opcode == instruction.opcode IN
  CASE opcode \in {"ADC", "AND", "BIT", "CMP", "CPX", "CPY", "EOR", "LDA", "LDX", "LDY",
                   "ORA", "SBC"} -> read_arm(s, instruction)
    [] opcode \in {"ASL", "LSR", "ROL", "ROR"} -> shift_arm(s, instruction)
    [] opcode \in {"INC", "DEC"} -> incdec_arm(s, instruction)
    [] opcode \in {"STA", "STX", "STY"} -> store_arm(s, instruction)
    [] opcode = "BCC" -> branch_on_condition(s, ~s.flags.carry, instruction)
    [] opcode = "BCS" -> branch_on_condition(s, s.flags.carry, instruction)
    [] opcode = "BEQ" -> branch_on_condition(s, s.flags.zero, instruction)
    [] opcode = "BMI" -> branch_on_condition(s, s.flags.negative, instruction)
    [] opcode = "BNE" -> branch_on_condition(s, ~s.flags.zero, instruction)
    [] opcode = "BPL" -> branch_on_condition(s, ~s.flags.negative, instruction)
    [] opcode = "BVC" -> branch_on_condition(s, ~s.flags.overflow, instruction)
    [] opcode = "BVS" -> branch_on_condition(s, s.flags.overflow, instruction)
    [] opcode = "CLC" -> [s EXCEPT !.flags.carry = FALSE]
    [] opcode = "CLD" -> [s EXCEPT !.flags.decimal_mode = FALSE]
    [] opcode = "CLI" -> [s EXCEPT !.flags.interrupt_disable = FALSE]
    [] opcode = "CLV" -> [s EXCEPT !.flags.overflow = FALSE]
    [] opcode = "DEX" -> LET s1 == [s EXCEPT !.x = Wrap(s.x - 1, 256)] IN set_flags(s1, s1.x)
    [] opcode = "DEY" -> LET s1 == [s EXCEPT !.y = Wrap(s.y - 1, 256)] IN set_flags(s1, s1.y)
    [] opcode = "INX" -> LET s1 == [s EXCEPT !.x = Wrap(s.x + 1, 256)] IN set_flags(s1, s1.x)
    [] opcode = "INY" -> LET s1 == [s EXCEPT !.y = Wrap(s.y + 1, 256)] IN set_flags(s1, s1.y)
    [] opcode = "JMP" -> jmp_arm(s, instruction)
    [] opcode = "JSR" -> jsr_arm(s, instruction)
    [] opcode = "NOP" -> s
    [] opcode = "PHA" -> push_on_stack(s, s.a)
    [] opcode = "PHP" -> push_on_stack(s, BitOr(as_byte(s.flags), 16))
    [] opcode = "PLA" ->
         LET p == pop_from_stack(s)
             s1 == [p.cpu EXCEPT !.a = p.byte]
         IN  IF ~Running(p.cpu) THEN p.cpu ELSE set_flags(s1, s1.a)
    [] opcode = "PLP" -> pull_flags(s)
    [] opcode = "RTI" -> rti_arm(s)
    [] opcode = "RTS" -> rts_arm(s)
    [] opcode = "SEC" -> [s EXCEPT !.flags.carry = TRUE]
    [] opcode = "SED" -> [s EXCEPT !.flags.decimal_mode = TRUE]
    [] opcode = "SEI" -> [s EXCEPT !.flags.interrupt_disable = TRUE]
    [] opcode = "TAX" -> LET s1 == [s EXCEPT !.x = s.a] IN set_flags(s1, s1.x)
    [] opcode = "TAY" -> LET s1 == [s EXCEPT !.y = s.a] IN set_flags(s1, s1.y)
    [] opcode = "TSX" -> LET s1 == [s EXCEPT !.x = s.sp] IN set_flags(s1, s1.x)
    [] opcode = "TXA" -> LET s1 == [s EXCEPT !.a = s.x] IN set_flags(s1, s1.a)
    [] opcode = "TXS" -> [s EXCEPT !.sp = s.x]
    [] opcode = "TYA" -> LET s1 == [s EXCEPT !.a = s.y] IN set_flags(s1, s1.a)
    [] OTHER -> unsupported_arm(s, instruction)

\* CPU6502::execute_instruction(instruction)
execute_instruction(s, instruction) ==
  LET s1 == execute_arm(s, instruction)
  IN  IF ~Running(s1) THEN s1
      ELSE IF Overflows(s1.pc + instruction.width, 65536) /\ build = "debug"
      THEN Panic(s1, "attempt to add with overflow", -1)
      ELSE [s1 EXCEPT !.pc = Wrap(s1.pc + instruction.width, 65536),
                      !.cycles = s1.cycles + instruction.cycles]

\* CPU6502::load_and_execute()
load_and_execute(s) ==
  LET instruction == decode(s.memory, s.pc)
  IN  IF ~instruction.ok
      THEN Panic(s, instruction.message.text, instruction.message.arg)
      ELSE execute_instruction(s, instruction)

\* ------------------------------------------------------------ the trace
\* impl Display for CPU6502: a line of text is the sequence of its characters.
HexDigit == <<"0", "1", "2", "3", "4", "5", "6", "7", "8", "9", "A", "B", "C", "D", "E", "F">>

RECURSIVE UpperHex(_)
\* format!("{:X}", v): the hex digits of v, as many as v needs
UpperHex(v) ==
  IF v < 16 THEN <<HexDigit[v + 1]>>
  ELSE UpperHex(v \div 16) \o <<HexDigit[(v % 16) + 1]>>

\* n copies of a character (none when n <= 0)
Repeat(char, n) == [i \in 1..n |-> char]

\* format!("{:02X}", v), format!("{:04X}", v): zero-padded to at least width
UpperHexPadded(v, width) == Repeat("0", width - Len(UpperHex(v))) \o UpperHex(v)

RECURSIVE Decimal(_)
\* format!("{}", v)
Decimal(v) ==
  IF v < 10 THEN <<HexDigit[v + 1]>>
  ELSE Decimal(v \div 10) \o <<HexDigit[(v % 10) + 1]>>

\* format!("{:?}", opcode): the name of the enum variant
Mnemonic ==
  [
   ADC |-> <<"A", "D", "C">>, AND |-> <<"A", "N", "D">>, ASL |-> <<"A", "S", "L">>, BCC |-> <<"B", "C", "C">>,
   BCS |-> <<"B", "C", "S">>, BEQ |-> <<"B", "E", "Q">>, BIT |-> <<"B", "I", "T">>, BMI |-> <<"B", "M", "I">>,
   BNE |-> <<"B", "N", "E">>, BPL |-> <<"B", "P", "L">>, BRK |-> <<"B", "R", "K">>, BVC |-> <<"B", "V", "C">>,
   BVS |-> <<"B", "V", "S">>, CLC |-> <<"C", "L", "C">>, CLD |-> <<"C", "L", "D">>, CLI |-> <<"C", "L", "I">>,
   CLV |-> <<"C", "L", "V">>, CMP |-> <<"C", "M", "P">>, CPX |-> <<"C", "P", "X">>, CPY |-> <<"C", "P", "Y">>,
   DEC |-> <<"D", "E", "C">>, DEX |-> <<"D", "E", "X">>, DEY |-> <<"D", "E", "Y">>, EOR |-> <<"E", "O", "R">>,
   INC |-> <<"I", "N", "C">>, INX |-> <<"I", "N", "X">>, INY |-> <<"I", "N", "Y">>, JMP |-> <<"J", "M", "P">>,
   JSR |-> <<"J", "S", "R">>, LDA |-> <<"L", "D", "A">>, LDX |-> <<"L", "D", "X">>, LDY |-> <<"L", "D", "Y">>,
   LSR |-> <<"L", "S", "R">>, NOP |-> <<"N", "O", "P">>, ORA |-> <<"O", "R", "A">>, PHA |-> <<"P", "H", "A">>,
   PHP |-> <<"P", "H", "P">>, PLA |-> <<"P", "L", "A">>, PLP |-> <<"P", "L", "P">>, ROL |-> <<"R", "O", "L">>,
   ROR |-> <<"R", "O", "R">>, RTI |-> <<"R", "T", "I">>, RTS |-> <<"R", "T", "S">>, SBC |-> <<"S", "B", "C">>,
   SEC |-> <<"S", "E", "C">>, SED |-> <<"S", "E", "D">>, SEI |-> <<"S", "E", "I">>, STA |-> <<"S", "T", "A">>,
   STX |-> <<"S", "T", "X">>, STY |-> <<"S", "T", "Y">>, TAX |-> <<"T", "A", "X">>, TAY |-> <<"T", "A", "Y">>,
   TSX |-> <<"T", "S", "X">>, TXA |-> <<"T", "X", "A">>, TXS |-> <<"T", "X", "S">>, TYA |-> <<"T", "Y", "A">>]

\* the result of formatting: ok is FALSE when it panicked
Text(chars) == [ok |-> TRUE, message |-> NoPanic, text |-> chars]

NoText(message) == [ok |-> FALSE, message |-> message, text |-> <<>>]

\* the match on instruction.width
bytes_fragment(instruction) ==
  CASE instruction.width = 1 ->
         UpperHexPadded(instruction.opcode_byte, 2) \o Repeat(" ", 8)
    [] instruction.width = 2 ->
         UpperHexPadded(instruction.opcode_byte, 2) \o <<" ">>
           \o UpperHexPadded(instruction.data.lo, 2) \o Repeat(" ", 5)
    [] instruction.width = 3 ->
         UpperHexPadded(instruction.opcode_byte, 2) \o <<" ">>
           \o UpperHexPadded(instruction.data.lo, 2) \o <<" ">>
           \o UpperHexPadded(instruction.data.hi, 2) \o Repeat(" ", 2)

\* the opcodes whose Absolute form is logged with the value at the address
ValueLogged ==
  {"STX", "STY", "STA", "LDA", "LDX", "LDY", "BIT", "ORA", "AND", "EOR", "ADC", "SBC", "CMP",
   "CPX", "CPY", "LSR", "ASL", "ROR", "ROL", "INC", "DEC"}

\* the fragment of the three indexed forms: "{:?} ${:02X},X @ {:02X} = {:02X}"
indexed_fragment(name, lo, register, value, shown) ==
  Text(name \o <<" ", "$">> \o UpperHexPadded(lo, 2) \o <<",", register>>
         \o <<" ", "@", " ">> \o UpperHexPadded(value, 2)
         \o <<" ", "=", " ">> \o UpperHexPadded(shown, 2))

\* the fragment with the byte at the resolved address behind it
valued_fragment(s, r, target) ==
  IF ~r.ok THEN NoText(r.message)
  ELSE IF ~InBounds(r.address)
  THEN NoText(PanicMessage("index out of bounds", r.address))
  ELSE Text(target \o <<" ", "=", " ">> \o UpperHexPadded(Read(s.memory, r.address), 2))

\* the arms of the match, given the mnemonic and what get_address_operand
\* (r) and get_value_operand (v) return for the instruction
operand_arms(s, instruction, name, r, v) ==
  LET mode == instruction.addressing_mode
      data == instruction.data
  IN  CASE mode = "Implied" -> Text(name)
        [] mode = "Immediate" -> Text(name \o <<" ", "#", "$">> \o UpperHexPadded(data.lo, 2))
        [] mode = "Accumulator" -> Text(name \o <<" ", "A">>)
        [] mode = "Absolute" /\ instruction.opcode \notin ValueLogged ->
             Text(name \o <<" ", "$">> \o UpperHexPadded(data.hi, 2) \o UpperHexPadded(data.lo, 2))
        [] mode = "Absolute" /\ instruction.opcode \in ValueLogged ->
             valued_fragment(s, r, name \o <<" ", "$">> \o UpperHexPadded(data.hi, 2)
                                     \o UpperHexPadded(data.lo, 2))
        [] mode \in {"AbsoluteIndexedX", "AbsoluteIndexedY"} ->
             IF ~r.ok THEN NoText(r.message)
             ELSE indexed_fragment(name, data.lo,
                                   IF mode = "AbsoluteIndexedX" THEN "X" ELSE "Y",
                                   IF mode = "AbsoluteIndexedX" THEN s.x ELSE s.y,
                                   Wrap(r.address, 65536))
        [] mode = "ZeroPage" ->
             IF ~v.ok THEN NoText(v.message)
             ELSE Text(name \o <<" ", "$">> \o UpperHexPadded(data.lo, 2)
                         \o <<" ", "=", " ">> \o UpperHexPadded(v.value, 2))
        [] mode \in {"ZeroPageIndexedX", "ZeroPageIndexedY"} ->
             IF ~v.ok THEN NoText(v.message)
             ELSE indexed_fragment(name, data.lo,
                                   IF mode = "ZeroPageIndexedX" THEN "X" ELSE "Y",
                                   IF mode = "ZeroPageIndexedX" THEN s.x ELSE s.y,
                                   v.value)
        [] mode = "IndexedIndirect" ->
             valued_fragment(s, r,
               name \o <<" ", "(", "$">> \o UpperHexPadded(data.lo, 2)
                    \o <<",", "X", ")", " ", "@", " ">>
                    \o UpperHexPadded(Wrap(s.x + data.lo, 256), 2)
                    \o <<" ", "=", " ">> \o UpperHexPadded(Wrap(r.address, 65536), 4))
        [] mode = "IndirectIndexed" ->
             valued_fragment(s, r,
               name \o <<" ", "(", "$">> \o UpperHexPadded(data.lo, 2)
                    \o <<")", ",", "Y", " ", "=", " ">>
                    \o UpperHexPadded(to_address_from_bytes(Read(s.memory, data.lo),
                                                            Read(s.memory, Wrap(data.lo + 1, 256))), 4)
                    \o <<" ", "@", " ">> \o UpperHexPadded(r.address, 4))
        [] mode = "Relative" ->
             IF ~r.ok THEN NoText(r.message)
             ELSE Text(name \o <<" ", "$">> \o UpperHexPadded(Wrap(r.address, 65536), 2))
        [] mode = "Indirect" ->
             IF ~r.ok THEN NoText(r.message)
             ELSE Text(name \o <<" ", "(", "$">> \o UpperHexPadded(data.hi, 2)
                         \o UpperHexPadded(data.lo, 2) \o <<")", " ", "=", " ">>
                         \o UpperHexPadded(Wrap(r.address, 65536), 2))

\* the match on instruction.addressing_mode
operand_fragment(s, instruction) ==
  operand_arms(s, instruction, Mnemonic[instruction.opcode],
               get_address_operand(s, instruction.data, instruction.addressing_mode),
               get_value_operand(s, instruction.data, instruction.addressing_mode))

\* the second half of the line: the processor state
processor_fragment(s) ==
  <<"A", ":">> \o UpperHexPadded(s.a, 2) \o <<" ", "X", ":">> \o UpperHexPadded(s.x, 2)
    \o <<" ", "Y", ":">> \o UpperHexPadded(s.y, 2) \o <<" ", "P", ":">> \o UpperHexPadded(as_byte(s.flags), 2)
    \o <<" ", "S", "P", ":">> \o UpperHexPadded(s.sp, 2)
    \o <<" ", "P", "P", "U", ":", " ", " ", "0", ",", " ", "0", "0", " ", "C", "Y", "C", ":">> \o Decimal(s.cycles)

\* the line from its first half: padded to 48 and followed by the state
padded_line(s, first_half) ==
  IF 48 - Len(first_half) < 0
  THEN NoText(PanicMessage("attempt to subtract with overflow", -1))
  ELSE Text(first_half \o Repeat(" ", 48 - Len(first_half)) \o processor_fragment(s))

\* the line of a decoded instruction from its operand fragment
fragments_line(s, instruction, operand) ==
  IF ~operand.ok THEN NoText(operand.message)
  ELSE padded_line(s, UpperHex(s.pc) \o <<" ", " ">> \o bytes_fragment(instruction)
                        \o operand.text)

\* the line of the instruction decoded at PC
decoded_line(s, instruction) ==
  IF ~instruction.ok THEN NoText(instruction.message)
  ELSE fragments_line(s, instruction, operand_fragment(s, instruction))

\* <CPU6502 as Display>::fmt: the trace line of the instruction at PC
fmt(s) == decoded_line(s, decode(s.memory, s.pc))

\* ------------------------------------------------------------ the harness
\* The harness builds the CPU as a struct literal over a buffer it has
\* filled, as the test does: any register, flag and memory contents.
HarnessOver(s, b, lines) ==
  /\ x = s.x /\ y = s.y /\ a = s.a /\ pc = s.pc /\ sp = s.sp /\ cycles = s.cycles
  /\ flags = s.flags /\ memory = s.memory
  /\ status = "running" /\ panic_message = NoPanic
  /\ build = b
  /\ line_no = 0
  /\ log_lines = lines
  /\ last = [valid |-> FALSE]

Harness(s, b) == HarnessOver(s, b, MaxLines)

\* the buffer holding the image with one instruction placed at an address
Program(at, opcode_byte, lo, hi) == load_memory(<<>>, at, <<opcode_byte, lo, hi>>)

\* the reset state of the nestest run: PC=0xC000, SP=0xFD, P=0x24, cycles=7
Reset(mem) ==
  [x |-> 0, y |-> 0, a |-> 0, pc |-> 49152, sp |-> 253, cycles |-> 7, flags |-> from_byte(36),
   memory |-> mem, status |-> "running", message |-> NoPanic]

\* one iteration of the harness loop: cpu.load_and_execute()
LoadAndExecute ==
  /\ status = "running"
  /\ line_no < log_lines
  /\ \E s \in {load_and_execute(CPU)} :
         /\ x' = s.x /\ y' = s.y /\ a' = s.a /\ pc' = s.pc /\ sp' = s.sp
         /\ cycles' = s.cycles /\ flags' = s.flags /\ memory' = s.memory
         /\ status' = s.status /\ panic_message' = s.message
  /\ last' = [valid |-> TRUE, instruction |-> decode(memory, pc), cpu |-> CPU,
              line |-> fmt(CPU), previous |-> last]
  /\ line_no' = line_no + 1
  /\ UNCHANGED <<build, log_lines>>

Next == LoadAndExecute


\* ------------------------------------------------------- specifications
\* every opcode byte at the reset PC, with a few operand bytes and registers
DecodeLo == {0, 127, 128, 255}

DecodeHi == {2, 255}

DecodeRegs == {0, 1, 255}

InitDecode ==
  \E b \in Builds, opcode_byte \in Byte, lo \in DecodeLo, hi \in DecodeHi,
     rx \in DecodeRegs, ry \in DecodeRegs :
    Harness([Reset(Program(49152, opcode_byte, lo, hi)) EXCEPT !.x = rx, !.y = ry, !.a = 129], b)

\* JMP ($02FF) at the reset PC over [0x02FF]=0x00, [0x0200]=0x80, [0x0300]=0xFF
IndirectJmpMemory ==
  load_memory(load_memory(load_memory(Program(49152, 108, 255, 2), 767, <<0>>), 512, <<128>>),
              768, <<255>>)

InitIndirectJmp == \E b \in Builds : Harness(Reset(IndirectJmpMemory), b)

Init == InitDecode \/ InitIndirectJmp

Spec == Init /\ [][Next]_vars

\* ADC and SBC immediate for every accumulator and carry, with operands at and
\* around the sign and wrap boundaries
ArithOperands ==
  {0, 1, 2, 15, 16, 63, 64, 80, 96, 112, 126, 127, 128, 129, 144, 160, 176, 192, 208, 240,
   251, 253, 254, 255}

InitArith ==
  \E b \in Builds, opcode_byte \in {105, 233}, operand \in ArithOperands, ra \in Byte,
     c \in BOOLEAN :
    Harness([Reset(Program(49152, opcode_byte, operand, 0)) EXCEPT !.a = ra, !.flags.carry = c], b)

SpecArith == InitArith /\ [][Next]_vars

\* the eight branch opcodes at low, middle and top addresses, with offsets
\* that stay in the page, cross it, and reach the two ends of the address
\* space, under every value of the four flags the branches test
BranchBytes == {16, 48, 80, 112, 144, 176, 208, 240}

BranchPCs == {0, 49152, 49406, 65533}

BranchOffsets == {0, 1, 2, 4, 127, 128, 253, 254, 255}

\* P = 0x24 with carry, zero, overflow and negative as chosen
BranchFlags ==
  {[from_byte(36) EXCEPT !.carry = c, !.zero = z, !.overflow = v, !.negative = n] :
     c \in BOOLEAN, z \in BOOLEAN, v \in BOOLEAN, n \in BOOLEAN}

InitBranch ==
  \E b \in Builds, opcode_byte \in BranchBytes, at \in BranchPCs, offset \in BranchOffsets,
     f \in BranchFlags :
    Harness([Reset(load_memory(<<>>, at, <<opcode_byte, offset>>)) EXCEPT !.pc = at, !.flags = f], b)

SpecBranch == InitBranch /\ [][Next]_vars

\* the stack instructions under every stack pointer: PHA, PHP, PLA, PLP, RTS
\* and RTI alone at 0xC000, and JSR at three addresses to a target that holds
\* an RTS
StackBytes == {8, 40, 64, 72, 96, 104}

JsrPCs == {32768, 49152, 65533}

JsrTargets == {0, 1, 2, 3, 512}

\* JSR target at from, RTS at target
JsrRts(from, target) ==
  LET return_address_bytes == to_bytes_from_address(target)
  IN  load_memory(load_memory(<<>>, from, <<32, return_address_bytes.lo, return_address_bytes.hi>>),
                  target, <<96>>)

InitStack ==
  \E b \in Builds, s \in Byte :
    \/ \E opcode_byte \in StackBytes :
         Harness([Reset(load_memory(<<>>, 49152, <<opcode_byte>>)) EXCEPT !.sp = s, !.a = 129], b)
    \/ \E from \in JsrPCs, target \in JsrTargets :
         Harness([Reset(JsrRts(from, target)) EXCEPT !.pc = from, !.sp = s], b)

SpecStack == InitStack /\ [][Next]_vars

\* every opcode byte at the last four addresses of memory, with as many of
\* its operand bytes as fit below 0x10000; JMP ($FFFF); and RTS with 0xFFFF on
\* the stack
EdgePCs == {65532, 65533, 65534, 65535}

EdgeData == {2, 255}

\* the first MEMORY_SIZE - at bytes of data, at most all of them
Fitting(at, data) ==
  SubSeq(data, 1, IF at + Len(data) > MEMORY_SIZE THEN MEMORY_SIZE - at ELSE Len(data))

InitEdge ==
  \E b \in Builds :
    \/ \E at \in EdgePCs, opcode_byte \in Byte, lo \in EdgeData, hi \in EdgeData :
         Harness([Reset(load_memory(<<>>, at, Fitting(at, <<opcode_byte, lo, hi>>)))
                    EXCEPT !.pc = at, !.a = 129], b)
    \/ Harness(Reset(Program(49152, 108, 255, 255)), b)
    \/ Harness(Reset(load_memory(load_memory(<<>>, 49152, <<96>>), 510, <<255, 255>>)), b)

SpecEdge == InitEdge /\ [][Next]_vars

\* JMP abs and JSR at two addresses to every low byte of target in the
\* lowest, a middle and the highest page
JumpBytes == {32, 76}

JumpPCs == {32768, 49152}

JumpPages == {0, 2, 255}

InitJump ==
  \E b \in Builds, opcode_byte \in JumpBytes, at \in JumpPCs, lo \in Byte, hi \in JumpPages :
    Harness([Reset(Program(at, opcode_byte, lo, hi)) EXCEPT !.pc = at, !.a = 129], b)

SpecJump == InitJump /\ [][Next]_vars

\* RTI with every status byte and return addresses at both ends of memory on
\* the stack; PHP then PLP under every value of the flags; PHA then PLA with
\* every accumulator
PullSPs == {0, 1, 240, 253, 255}

ReturnLo == {0, 1, 255}

ReturnHi == {0, 255}

\* the three bytes above stack pointer s, wrapping in the stack page
Stacked(mem, s, first, second, third) ==
  load_memory(load_memory(load_memory(mem, STACK_PAGE + ((s + 1) % 256), <<first>>),
                          STACK_PAGE + ((s + 2) % 256), <<second>>),
              STACK_PAGE + ((s + 3) % 256), <<third>>)

InitPull ==
  \E b \in Builds, s \in PullSPs, byte \in Byte :
    \/ \E lo \in ReturnLo, hi \in ReturnHi :
         Harness([Reset(Stacked(load_memory(<<>>, 49152, <<64>>), s, byte, lo, hi))
                    EXCEPT !.sp = s], b)
    \/ Harness([Reset(load_memory(<<>>, 49152, <<8, 40>>))
                    EXCEPT !.sp = s, !.flags = from_byte(byte)], b)
    \/ Harness([Reset(load_memory(<<>>, 49152, <<72, 104>>))
                    EXCEPT !.sp = s, !.a = byte], b)

SpecPull == InitPull /\ [][Next]_vars

\* ADC and SBC immediate with D clear and set, and every opcode byte with D
\* clear and set over a stack whose status byte has D clear or set
DecimalAccumulators == {0, 9, 10, 15, 25, 80, 127, 128, 153, 255}

DecimalStatus == {0, 8}

InitDecimal ==
  \E b \in Builds, d \in BOOLEAN :
    \/ \E opcode_byte \in {105, 233}, operand \in ArithOperands, ra \in DecimalAccumulators,
          c \in BOOLEAN :
         Harness([Reset(Program(49152, opcode_byte, operand, 0))
                    EXCEPT !.a = ra, !.flags.carry = c, !.flags.decimal_mode = d], b)
    \/ \E opcode_byte \in Byte, p \in DecimalStatus :
         Harness([Reset(Stacked(Program(49152, opcode_byte, 2, 2), 240, p, 0, 128))
                    EXCEPT !.sp = 240, !.flags.decimal_mode = d], b)

SpecDecimal == InitDecimal /\ [][Next]_vars

\* CMP, CPX and CPY immediate with every value of the compared register,
\* against operands at the ends and the middle of the byte range and next to
\* the register's own value
CompareBytes == {192, 201, 224}

CompareOperands(r) == {0, 1, 127, 128, 255, r, (r + 1) % 256, (r + 255) % 256}

InitCompare ==
  \E b \in Builds, opcode_byte \in CompareBytes, r \in Byte, c \in BOOLEAN :
    \E m \in CompareOperands(r) :
      Harness([Reset(Program(49152, opcode_byte, m, 0))
                 EXCEPT !.a = IF opcode_byte = 201 THEN r ELSE 85,
                        !.x = IF opcode_byte = 224 THEN r ELSE 86,
                        !.y = IF opcode_byte = 192 THEN r ELSE 87,
                        !.flags.carry = c], b)

SpecCompare == InitCompare /\ [][Next]_vars

\* ROL in each of its five modes followed by the ROR of the same mode and
\* operand (and ROR followed by ROL), with every value of the target, both
\* carries, and X = 0 and 1
RolBytes == {38, 42, 46, 54, 62}

RotateX == {0, 1}

\* where the target of opcode_byte $10 / $0210 lies with index rx: -1 is A
RotateTarget(opcode_byte, rx) ==
  CASE OpcodeTable[opcode_byte].addressing_mode = "Accumulator" -> -1
    [] OpcodeTable[opcode_byte].addressing_mode = "ZeroPage" -> 16
    [] OpcodeTable[opcode_byte].addressing_mode = "ZeroPageIndexedX" -> 16 + rx
    [] OpcodeTable[opcode_byte].addressing_mode = "Absolute" -> 528
    [] OpcodeTable[opcode_byte].addressing_mode = "AbsoluteIndexedX" -> 528 + rx

\* first and second with the operand $10 / $0210 of their width, one after
\* the other at 0xC000
RotatePair(first, second) ==
  LET operand == SubSeq(<<16, 2>>, 1, OpcodeTable[first].width - 1)
  IN  load_memory(<<>>, 49152, <<first>> \o operand \o <<second>> \o operand)

InitRotate ==
  \E b \in Builds, rol \in RolBytes, rol_first \in BOOLEAN, t \in Byte, c \in BOOLEAN,
     rx \in RotateX :
    LET first == IF rol_first THEN rol ELSE rol + 64
        second == IF rol_first THEN rol + 64 ELSE rol
        target == RotateTarget(first, rx)
        program == RotatePair(first, second)
    IN  Harness([Reset(IF target = -1 THEN program ELSE load_memory(program, target, <<t>>))
                   EXCEPT !.a = IF target = -1 THEN t ELSE 129, !.x = rx, !.flags.carry = c], b)

SpecRotate == InitRotate /\ [][Next]_vars

\* ------------------------------------------------------------ properties
\* the last load_and_execute decoded an instruction
Decoded == last.valid /\ last.instruction.ok

\* the last load_and_execute retired its instruction
Retired == Decoded /\ status = "running"

\* the operand value the resolver handed to the last instruction
LastOperand ==
  get_value_operand(last.cpu, last.instruction.data, last.instruction.addressing_mode).value

\* the official 6502 opcode table: byte, mnemonic, mode, base cycles, width
CanonicalTable ==
  0 :> Row(0, "BRK", "Implied", 7, 1) @@
  1 :> Row(1, "ORA", "IndexedIndirect", 6, 2) @@
  5 :> Row(5, "ORA", "ZeroPage", 3, 2) @@
  6 :> Row(6, "ASL", "ZeroPage", 5, 2) @@
  8 :> Row(8, "PHP", "Implied", 3, 1) @@
  9 :> Row(9, "ORA", "Immediate", 2, 2) @@
  10 :> Row(10, "ASL", "Accumulator", 2, 1) @@
  13 :> Row(13, "ORA", "Absolute", 4, 3) @@
  14 :> Row(14, "ASL", "Absolute", 6, 3) @@
  16 :> Row(16, "BPL", "Relative", 2, 2) @@
  17 :> Row(17, "ORA", "IndirectIndexed", 5, 2) @@
  21 :> Row(21, "ORA", "ZeroPageIndexedX", 4, 2) @@
  22 :> Row(22, "ASL", "ZeroPageIndexedX", 6, 2) @@
  24 :> Row(24, "CLC", "Implied", 2, 1) @@
  25 :> Row(25, "ORA", "AbsoluteIndexedY", 4, 3) @@
  29 :> Row(29, "ORA", "AbsoluteIndexedX", 4, 3) @@
  30 :> Row(30, "ASL", "AbsoluteIndexedX", 7, 3) @@
  32 :> Row(32, "JSR", "Absolute", 6, 3) @@
  33 :> Row(33, "AND", "IndexedIndirect", 6, 2) @@
  36 :> Row(36, "BIT", "ZeroPage", 3, 2) @@
  37 :> Row(37, "AND", "ZeroPage", 3, 2) @@
  38 :> Row(38, "ROL", "ZeroPage", 5, 2) @@
  40 :> Row(40, "PLP", "Implied", 4, 1) @@
  41 :> Row(41, "AND", "Immediate", 2, 2) @@
  42 :> Row(42, "ROL", "Accumulator", 2, 1) @@
  44 :> Row(44, "BIT", "Absolute", 4, 3) @@
  45 :> Row(45, "AND", "Absolute", 4, 3) @@
  46 :> Row(46, "ROL", "Absolute", 6, 3) @@
  48 :> Row(48, "BMI", "Relative", 2, 2) @@
  49 :> Row(49, "AND", "IndirectIndexed", 5, 2) @@
  53 :> Row(53, "AND", "ZeroPageIndexedX", 4, 2) @@
  54 :> Row(54, "ROL", "ZeroPageIndexedX", 6, 2) @@
  56 :> Row(56, "SEC", "Implied", 2, 1) @@
  57 :> Row(57, "AND", "AbsoluteIndexedY", 4, 3) @@
  61 :> Row(61, "AND", "AbsoluteIndexedX", 4, 3) @@
  62 :> Row(62, "ROL", "AbsoluteIndexedX", 7, 3) @@
  64 :> Row(64, "RTI", "Implied", 6, 1) @@
  65 :> Row(65, "EOR", "IndexedIndirect", 6, 2) @@
  69 :> Row(69, "EOR", "ZeroPage", 3, 2) @@
  70 :> Row(70, "LSR", "ZeroPage", 5, 2) @@
  72 :> Row(72, "PHA", "Implied", 3, 1) @@
  73 :> Row(73, "EOR", "Immediate", 2, 2) @@
  74 :> Row(74, "LSR", "Accumulator", 2, 1) @@
  76 :> Row(76, "JMP", "Absolute", 3, 3) @@
  77 :> Row(77, "EOR", "Absolute", 4, 3) @@
  78 :> Row(78, "LSR", "Absolute", 6, 3) @@
  80 :> Row(80, "BVC", "Relative", 2, 2) @@
  81 :> Row(81, "EOR", "IndirectIndexed", 5, 2) @@
  85 :> Row(85, "EOR", "ZeroPageIndexedX", 4, 2) @@
  86 :> Row(86, "LSR", "ZeroPageIndexedX", 6, 2) @@
  88 :> Row(88, "CLI", "Implied", 2, 1) @@
  89 :> Row(89, "EOR", "AbsoluteIndexedY", 4, 3) @@
  93 :> Row(93, "EOR", "AbsoluteIndexedX", 4, 3) @@
  94 :> Row(94, "LSR", "AbsoluteIndexedX", 7, 3) @@
  96 :> Row(96, "RTS", "Implied", 6, 1) @@
  97 :> Row(97, "ADC", "IndexedIndirect", 6, 2) @@
  101 :> Row(101, "ADC", "ZeroPage", 3, 2) @@
  102 :> Row(102, "ROR", "ZeroPage", 5, 2) @@
  104 :> Row(104, "PLA", "Implied", 4, 1) @@
  105 :> Row(105, "ADC", "Immediate", 2, 2) @@
  106 :> Row(106, "ROR", "Accumulator", 2, 1) @@
  108 :> Row(108, "JMP", "Indirect", 5, 3) @@
  109 :> Row(109, "ADC", "Absolute", 4, 3) @@
  110 :> Row(110, "ROR", "Absolute", 6, 3) @@
  112 :> Row(112, "BVS", "Relative", 2, 2) @@
  113 :> Row(113, "ADC", "IndirectIndexed", 5, 2) @@
  117 :> Row(117, "ADC", "ZeroPageIndexedX", 4, 2) @@
  118 :> Row(118, "ROR", "ZeroPageIndexedX", 6, 2) @@
  120 :> Row(120, "SEI", "Implied", 2, 1) @@
  121 :> Row(121, "ADC", "AbsoluteIndexedY", 4, 3) @@
  125 :> Row(125, "ADC", "AbsoluteIndexedX", 4, 3) @@
  126 :> Row(126, "ROR", "AbsoluteIndexedX", 7, 3) @@
  129 :> Row(129, "STA", "IndexedIndirect", 6, 2) @@
  132 :> Row(132, "STY", "ZeroPage", 3, 2) @@
  133 :> Row(133, "STA", "ZeroPage", 3, 2) @@
  134 :> Row(134, "STX", "ZeroPage", 3, 2) @@
  136 :> Row(136, "DEY", "Implied", 2, 1) @@
  138 :> Row(138, "TXA", "Implied", 2, 1) @@
  140 :> Row(140, "STY", "Absolute", 4, 3) @@
  141 :> Row(141, "STA", "Absolute", 4, 3) @@
  142 :> Row(142, "STX", "Absolute", 4, 3) @@
  144 :> Row(144, "BCC", "Relative", 2, 2) @@
  145 :> Row(145, "STA", "IndirectIndexed", 6, 2) @@
  148 :> Row(148, "STY", "ZeroPageIndexedX", 4, 2) @@
  149 :> Row(149, "STA", "ZeroPageIndexedX", 4, 2) @@
  150 :> Row(150, "STX", "ZeroPageIndexedY", 4, 2) @@
  152 :> Row(152, "TYA", "Implied", 2, 1) @@
  153 :> Row(153, "STA", "AbsoluteIndexedY", 5, 3) @@
  154 :> Row(154, "TXS", "Implied", 2, 1) @@
  157 :> Row(157, "STA", "AbsoluteIndexedX", 5, 3) @@
  160 :> Row(160, "LDY", "Immediate", 2, 2) @@
  161 :> Row(161, "LDA", "IndexedIndirect", 6, 2) @@
  162 :> Row(162, "LDX", "Immediate", 2, 2) @@
  164 :> Row(164, "LDY", "ZeroPage", 3, 2) @@
  165 :> Row(165, "LDA", "ZeroPage", 3, 2) @@
  166 :> Row(166, "LDX", "ZeroPage", 3, 2) @@
  168 :> Row(168, "TAY", "Implied", 2, 1) @@
  169 :> Row(169, "LDA", "Immediate", 2, 2) @@
  170 :> Row(170, "TAX", "Implied", 2, 1) @@
  172 :> Row(172, "LDY", "Absolute", 4, 3) @@
  173 :> Row(173, "LDA", "Absolute", 4, 3) @@
  174 :> Row(174, "LDX", "Absolute", 4, 3) @@
  176 :> Row(176, "BCS", "Relative", 2, 2) @@
  177 :> Row(177, "LDA", "IndirectIndexed", 5, 2) @@
  180 :> Row(180, "LDY", "ZeroPageIndexedX", 4, 2) @@
  181 :> Row(181, "LDA", "ZeroPageIndexedX", 4, 2) @@
  182 :> Row(182, "LDX", "ZeroPageIndexedY", 4, 2) @@
  184 :> Row(184, "CLV", "Implied", 2, 1) @@
  185 :> Row(185, "LDA", "AbsoluteIndexedY", 4, 3) @@
  186 :> Row(186, "TSX", "Implied", 2, 1) @@
  188 :> Row(188, "LDY", "AbsoluteIndexedX", 4, 3) @@
  189 :> Row(189, "LDA", "AbsoluteIndexedX", 4, 3) @@
  190 :> Row(190, "LDX", "AbsoluteIndexedY", 4, 3) @@
  192 :> Row(192, "CPY", "Immediate", 2, 2) @@
  193 :> Row(193, "CMP", "IndexedIndirect", 6, 2) @@
  196 :> Row(196, "CPY", "ZeroPage", 3, 2) @@
  197 :> Row(197, "CMP", "ZeroPage", 3, 2) @@
  198 :> Row(198, "DEC", "ZeroPage", 5, 2) @@
  200 :> Row(200, "INY", "Implied", 2, 1) @@
  201 :> Row(201, "CMP", "Immediate", 2, 2) @@
  202 :> Row(202, "DEX", "Implied", 2, 1) @@
  204 :> Row(204, "CPY", "Absolute", 4, 3) @@
  205 :> Row(205, "CMP", "Absolute", 4, 3) @@
  206 :> Row(206, "DEC", "Absolute", 6, 3) @@
  208 :> Row(208, "BNE", "Relative", 2, 2) @@
  209 :> Row(209, "CMP", "IndirectIndexed", 5, 2) @@
  213 :> Row(213, "CMP", "ZeroPageIndexedX", 4, 2) @@
  214 :> Row(214, "DEC", "ZeroPageIndexedX", 6, 2) @@
  216 :> Row(216, "CLD", "Implied", 2, 1) @@
  217 :> Row(217, "CMP", "AbsoluteIndexedY", 4, 3) @@
  221 :> Row(221, "CMP", "AbsoluteIndexedX", 4, 3) @@
  222 :> Row(222, "DEC", "AbsoluteIndexedX", 7, 3) @@
  224 :> Row(224, "CPX", "Immediate", 2, 2) @@
  225 :> Row(225, "SBC", "IndexedIndirect", 6, 2) @@
  228 :> Row(228, "CPX", "ZeroPage", 3, 2) @@
  229 :> Row(229, "SBC", "ZeroPage", 3, 2) @@
  230 :> Row(230, "INC", "ZeroPage", 5, 2) @@
  232 :> Row(232, "INX", "Implied", 2, 1) @@
  233 :> Row(233, "SBC", "Immediate", 2, 2) @@
  234 :> Row(234, "NOP", "Implied", 2, 1) @@
  236 :> Row(236, "CPX", "Absolute", 4, 3) @@
  237 :> Row(237, "SBC", "Absolute", 4, 3) @@
  238 :> Row(238, "INC", "Absolute", 6, 3) @@
  240 :> Row(240, "BEQ", "Relative", 2, 2) @@
  241 :> Row(241, "SBC", "IndirectIndexed", 5, 2) @@
  245 :> Row(245, "SBC", "ZeroPageIndexedX", 4, 2) @@
  246 :> Row(246, "INC", "ZeroPageIndexedX", 6, 2) @@
  248 :> Row(248, "SED", "Implied", 2, 1) @@
  249 :> Row(249, "SBC", "AbsoluteIndexedY", 4, 3) @@
  253 :> Row(253, "SBC", "AbsoluteIndexedX", 4, 3) @@
  254 :> Row(254, "INC", "AbsoluteIndexedX", 7, 3)

\* the number of operand bytes of an addressing mode
OperandLength(mode) ==
  CASE mode \in {"Implied", "Accumulator"} -> 0
    [] mode \in {"Immediate", "ZeroPage", "ZeroPageIndexedX", "ZeroPageIndexedY", "Relative",
                 "IndexedIndirect", "IndirectIndexed"} -> 1
    [] mode \in {"Absolute", "AbsoluteIndexedX", "AbsoluteIndexedY", "Indirect"} -> 2

BranchOpcodes == {"BCC", "BCS", "BEQ", "BMI", "BNE", "BPL", "BVC", "BVS"}

JumpOpcodes == {"JMP", "JSR", "RTS", "RTI", "BRK"}

\* C1: every official opcode byte decodes to the mnemonic, addressing mode,
\* width and base cycles of its row in the canonical 6502 opcode table.
C1_DecodeMatchesCanonical ==
  Decoded =>
    LET i == last.instruction
    IN  Row(i.opcode_byte, i.opcode, i.addressing_mode, i.cycles, i.width)
          = CanonicalTable[i.opcode_byte]

\* C2: the decoded width is one more than the operand length of the decoded
\* addressing mode, so a retired instruction that is neither a branch nor a
\* jump leaves PC on the first byte after its operand bytes.
C2_WidthMatchesMode ==
  Decoded =>
    LET i == last.instruction
    IN  /\ i.width = 1 + OperandLength(i.addressing_mode)
        /\ (Retired /\ i.opcode \notin BranchOpcodes \cup JumpOpcodes) =>
             pc = (last.cpu.pc + 1 + OperandLength(i.addressing_mode)) % 65536

\* C3: ADC leaves A = (A + operand + C) mod 256 and sets the carry exactly
\* when A + operand + C exceeds 0xFF.
C3_AdcSumAndCarry ==
  (Retired /\ last.instruction.opcode = "ADC") =>
    LET raw == last.cpu.a + LastOperand + AsU8(last.cpu.flags.carry)
    IN  /\ a = raw % 256
        /\ flags.carry = (raw > 255)

\* C4: SBC leaves A = (A - m - (1 - C)) mod 256 and sets the carry exactly
\* when no borrow occurred, A >= m + (1 - C).
C4_SbcDifferenceAndBorrow ==
  (Retired /\ last.instruction.opcode = "SBC") =>
    LET borrow == 1 - AsU8(last.cpu.flags.carry)
    IN  /\ a = (last.cpu.a - LastOperand - borrow) % 256
        /\ flags.carry = (last.cpu.a >= LastOperand + borrow)

\* the addend of the last ADC or SBC: the operand, complemented for SBC
LastAddend == IF last.instruction.opcode = "SBC" THEN 255 - LastOperand ELSE LastOperand

SignBit(b) == b \div 128

\* C5: after ADC, and SBC through the complemented operand, V equals
\* ((A ^ result) & (op ^ result) & 0x80) != 0, which is: both addends have
\* the same sign bit and the result's differs; N and Z come from the result.
C5_OverflowFlag ==
  (Retired /\ last.instruction.opcode \in {"ADC", "SBC"}) =>
    LET before == last.cpu.a
        op == LastAddend
        result == (before + op + AsU8(last.cpu.flags.carry)) % 256
    IN  /\ a = result
        /\ flags.overflow = (BitAnd(BitAnd(BitXor(before, result), BitXor(op, result)), 128) # 0)
        /\ flags.overflow = (SignBit(before) = SignBit(op) /\ SignBit(result) # SignBit(before))
        /\ flags.negative = (result >= 128)
        /\ flags.zero = (result = 0)

\* ADC #$50 with A = 0x50 and carry clear has retired: A=0xA0, V=1, N=1, Z=0, C=0
C5_Witness ==
  /\ Retired /\ last.instruction.opcode = "ADC"
  /\ last.cpu.a = 80 /\ LastOperand = 80 /\ ~last.cpu.flags.carry
  /\ a = 160 /\ flags.overflow /\ flags.negative /\ ~flags.zero /\ ~flags.carry
  /\ pc = 49154 /\ cycles = 9

\* the instruction and the CPU the last load_and_execute started from
LastMode == last.instruction.addressing_mode

LastData == last.instruction.data

\* memory[addr] before the last step
Before(addr) == Read(last.cpu.memory, addr)

\* the little-endian word of two bytes
Word(lo, hi) == hi * 256 + lo

\* what the last instruction's arm did to the byte at an effective address:
\* a load left the byte in its register, a store left the register in the byte
LoadedFrom(ea) ==
  /\ last.instruction.opcode = "LDA" => a = Before(ea)
  /\ last.instruction.opcode = "LDX" => x = Before(ea)
  /\ last.instruction.opcode = "LDY" => y = Before(ea)

StoredTo(ea) ==
  /\ last.instruction.opcode = "STA" => Read(memory, ea) = last.cpu.a
  /\ last.instruction.opcode = "STX" => Read(memory, ea) = last.cpu.x
  /\ last.instruction.opcode = "STY" => Read(memory, ea) = last.cpu.y

\* the address the resolver computes for the last instruction
LastResolved == get_address_operand(last.cpu, LastData, LastMode)

\* C6: in AbsoluteIndexedX (AbsoluteIndexedY) mode the effective address of
\* the read or write is (word(data.lo, data.hi) + X) mod 65536 (+ Y): a load
\* reads that byte and a store writes it.
C6_AbsoluteIndexedAddress ==
  (Decoded /\ LastMode \in {"AbsoluteIndexedX", "AbsoluteIndexedY"}) =>
    LET index == IF LastMode = "AbsoluteIndexedX" THEN last.cpu.x ELSE last.cpu.y
        ea == (Word(LastData.lo, LastData.hi) + index) % 65536
    IN  /\ LastResolved.address = ea
        /\ Retired => (LoadedFrom(ea) /\ StoredTo(ea))

\* the zero-page pointer of IndirectIndexed mode
PointerAt(zp) == Word(Before(zp), Before((zp + 1) % 256))

\* C7: a read opcode in AbsoluteIndexedX, AbsoluteIndexedY or IndirectIndexed
\* mode costs base_cycles + 1 exactly when the base and the indexed address
\* lie in different pages and base_cycles otherwise; stores and
\* read-modify-write opcodes always cost base_cycles.
C7_PageCrossPenalty ==
  (Retired /\ LastMode \in {"AbsoluteIndexedX", "AbsoluteIndexedY", "IndirectIndexed"}) =>
    LET base == IF LastMode = "IndirectIndexed" THEN PointerAt(LastData.lo)
                ELSE Word(LastData.lo, LastData.hi)
        index == IF LastMode = "AbsoluteIndexedX" THEN last.cpu.x ELSE last.cpu.y
        crossed == (base \div 256) # (((base + index) % 65536) \div 256)
        penalty == IF last.instruction.opcode \in ReadOpcodes /\ crossed THEN 1 ELSE 0
    IN  cycles = last.cpu.cycles + last.instruction.cycles + penalty

\* C8: in ZeroPageIndexedX (ZeroPageIndexedY) mode the effective address is
\* (data.lo + X) mod 256 (+ Y), also when data.lo + index >= 256: the step
\* completes and reads or writes the wrapped zero-page address.
C8_ZeroPageIndexedWraps ==
  (Decoded /\ LastMode \in {"ZeroPageIndexedX", "ZeroPageIndexedY"}) =>
    LET index == IF LastMode = "ZeroPageIndexedX" THEN last.cpu.x ELSE last.cpu.y
        ea == (LastData.lo + index) % 256
    IN  /\ Retired
        /\ LastResolved = Resolved(ea, FALSE)
        /\ LoadedFrom(ea) /\ StoredTo(ea)

\* C9: both zero-page pointer modes fetch their pointer with zero-page
\* wraparound.  IndexedIndirect: p = (data.lo + X) mod 256 and the address is
\* word(mem[p], mem[(p+1) mod 256]).  IndirectIndexed: base =
\* word(mem[data.lo], mem[(data.lo+1) mod 256]), the address is
\* (base + Y) mod 65536 and page_crossed says the pages of base and address
\* differ, which a read pays one cycle for.
C9_ZeroPagePointerWraps ==
  /\ (Decoded /\ LastMode = "IndexedIndirect") =>
       LET p == (LastData.lo + last.cpu.x) % 256
           ea == Word(Before(p), Before((p + 1) % 256))
       IN  /\ LastResolved = Resolved(ea, FALSE)
           /\ Retired
           /\ LoadedFrom(ea) /\ StoredTo(ea)
  /\ (Decoded /\ LastMode = "IndirectIndexed") =>
       LET base == PointerAt(LastData.lo)
           ea == (base + last.cpu.y) % 65536
           crossed == (base \div 256) # (ea \div 256)
       IN  /\ LastResolved = Resolved(ea, crossed)
           /\ Retired
           /\ LoadedFrom(ea) /\ StoredTo(ea)
           /\ last.instruction.opcode = "LDA" =>
                cycles = last.cpu.cycles + last.instruction.cycles + AsU8(crossed)

\* LDA (zp,X) has retired with its pointer at 0xFF, so the pointer's high
\* byte came from 0x00, and loaded the byte the pointer names
C9_Witness ==
  /\ Retired /\ last.instruction.opcode = "LDA" /\ LastMode = "IndexedIndirect"
  /\ (LastData.lo + last.cpu.x) % 256 = 255
  /\ a = Before(Word(Before(255), Before(0)))
  /\ a # Before(Word(Before(255), Before(256)))

\* C10: JMP indirect with a pointer whose low byte is 0xFF takes the target's
\* high byte from mem[ptr & 0xFF00]; JMP ($02FF) over [0x02FF]=0x00,
\* [0x0200]=0x80, [0x0300]=0xFF leaves PC = 0x8000.
C10_IndirectJmpPageWrap ==
  (Retired /\ last.instruction.opcode = "JMP" /\ LastMode = "Indirect" /\ LastData.lo = 255) =>
    LET ptr == Word(LastData.lo, LastData.hi)
    IN  /\ pc = Word(Before(ptr), Before(ptr - 255))
        /\ last.cpu.memory = IndirectJmpMemory => pc = 32768

\* the flag test of a branch opcode
BranchCondition(opcode, f) ==
  CASE opcode = "BCC" -> ~f.carry
    [] opcode = "BCS" -> f.carry
    [] opcode = "BEQ" -> f.zero
    [] opcode = "BNE" -> ~f.zero
    [] opcode = "BMI" -> f.negative
    [] opcode = "BPL" -> ~f.negative
    [] opcode = "BVC" -> ~f.overflow
    [] opcode = "BVS" -> f.overflow

\* the last instruction was a branch whose condition held (did not hold)
BranchTaken ==
  /\ Decoded /\ last.instruction.opcode \in BranchOpcodes
  /\ BranchCondition(last.instruction.opcode, last.cpu.flags)

BranchNotTaken ==
  /\ Decoded /\ last.instruction.opcode \in BranchOpcodes
  /\ ~BranchCondition(last.instruction.opcode, last.cpu.flags)

\* PC + 2 and the target PC + 2 + signed(data.lo) of the last branch
BranchNext == (last.cpu.pc + 2) % 65536

BranchTarget == (last.cpu.pc + 2 + AsI8(LastData.lo)) % 65536

\* C11: a branch whose condition holds sets PC to (PC + 2 + signed(data.lo))
\* mod 65536 and costs 3 cycles when that target is in the page of PC + 2 and
\* 4 when it is not, for every PC and offset, targets 0x0000 and 0x0001 included.
C11_BranchTaken ==
  BranchTaken =>
    /\ Retired
    /\ pc = BranchTarget
    /\ cycles = last.cpu.cycles
                  + (IF BranchNext \div 256 = BranchTarget \div 256 THEN 3 ELSE 4)

\* the CPU the nestest reset state gives with Z set and BEQ +2 at 0xC0FE
BeqAtPageEnd ==
  [Reset(load_memory(<<>>, 49406, <<240, 2>>)) EXCEPT !.pc = 49406, !.flags.zero = TRUE]

\* C12 as stated: BEQ +2 at 0xC0FE with Z=1 leaves PC=0xC102 and cycles=11.
C12_BeqPageEndElevenCycles ==
  (last.valid /\ last.cpu = BeqAtPageEnd) => (pc = 49410 /\ cycles = 11)

\* C12 as amended: BEQ +2 at 0xC0FE with Z=1 leaves PC=0xC102 and cycles=10
\* (7 + base 2 + 1 taken): the target 0xC102 lies in the page of PC + 2 =
\* 0xC100, so no page-cross cycle is charged.
C12_BeqPageEndTenCycles ==
  (last.valid /\ last.cpu = BeqAtPageEnd) => (Retired /\ pc = 49410 /\ cycles = 10)

\* the BEQ +2 at 0xC0FE has retired
C12_Witness ==
  /\ Retired /\ last.cpu = BeqAtPageEnd /\ last.instruction.opcode = "BEQ"
  /\ pc = 49410 /\ cycles = 10

\* C13: a branch whose condition does not hold changes only PC (+ 2) and
\* cycles (+ 2): A, X, Y, SP, the flags and memory stay as they were.
C13_BranchNotTaken ==
  BranchNotTaken =>
    /\ Retired
    /\ pc = (last.cpu.pc + 2) % 65536
    /\ cycles = last.cpu.cycles + 2
    /\ a = last.cpu.a /\ x = last.cpu.x /\ y = last.cpu.y /\ sp = last.cpu.sp
    /\ flags = last.cpu.flags
    /\ memory = last.cpu.memory

\* a BNE with Z set has retired at the page end without branching
C13_Witness ==
  /\ BranchNotTaken /\ Retired /\ last.instruction.opcode = "BNE" /\ last.cpu.flags.zero
  /\ last.cpu.pc = 49406 /\ pc = 49408 /\ cycles = last.cpu.cycles + 2

\* the address a stack pointer names
StackAt(s) == STACK_PAGE + s

\* the return address PC + 2 a JSR at the last PC pushes
ReturnAddress == (last.cpu.pc + 2) % 65536

\* the last instruction was the RTS at the target of the JSR before it
RtsAfterJsr ==
  /\ Decoded /\ last.instruction.opcode = "RTS"
  /\ last.previous.valid /\ last.previous.instruction.opcode = "JSR"
  /\ last.cpu.pc = Word(last.previous.instruction.data.lo, last.previous.instruction.data.hi)

\* C14: JSR t at p with stack pointer s pushes the high byte of p + 2 at
\* 0x0100|s and the low byte at 0x0100|(s-1), leaves SP = s - 2 (mod 256) and
\* PC = t; the RTS at t executed next leaves PC = p + 3 and SP = s.
C14_JsrThenRts ==
  /\ (Decoded /\ last.instruction.opcode = "JSR") =>
       /\ Retired
       /\ Read(memory, StackAt(last.cpu.sp)) = ReturnAddress \div 256
       /\ Read(memory, StackAt((last.cpu.sp + 255) % 256)) = ReturnAddress % 256
       /\ sp = (last.cpu.sp + 254) % 256
       /\ pc = Word(LastData.lo, LastData.hi)
  /\ RtsAfterJsr =>
       /\ Retired
       /\ pc = (last.previous.cpu.pc + 3) % 65536
       /\ sp = last.previous.cpu.sp

\* C15: the stack pointer wraps modulo 256: PHA and PHP write mem[0x0100|SP]
\* and leave SP - 1, PLA and PLP read mem[0x0100|(SP+1)] and leave SP + 1, JSR
\* leaves SP - 2, RTS SP + 2 and RTI SP + 3, all modulo 256, and none of them
\* fails because of the value of SP (JSR and RTS are held to their stack
\* pointer only, since their PC arithmetic can fail on its own).
C15_StackPointerWraps ==
  LET opcode == last.instruction.opcode
      s == last.cpu.sp
      top == Read(last.cpu.memory, StackAt((s + 1) % 256))
  IN  Decoded =>
        /\ opcode = "PHA" =>
             Retired /\ sp = (s + 255) % 256 /\ Read(memory, StackAt(s)) = last.cpu.a
        /\ opcode = "PHP" =>
             /\ Retired /\ sp = (s + 255) % 256
             /\ Read(memory, StackAt(s)) = BitOr(as_byte(last.cpu.flags), 16)
        /\ opcode = "PLA" => Retired /\ sp = (s + 1) % 256 /\ a = top
        /\ opcode = "PLP" =>
             /\ Retired /\ sp = (s + 1) % 256
             /\ as_byte(flags) = BitOr(BitAnd(top, 207), 32)
        /\ opcode = "JSR" => sp = (s + 254) % 256
        /\ opcode = "RTS" => sp = (s + 2) % 256
        /\ opcode = "RTI" => Retired /\ sp = (s + 3) % 256

\* the registers, flags, cycle counter and memory are those the last step
\* started from
Untouched ==
  /\ a = last.cpu.a /\ x = last.cpu.x /\ y = last.cpu.y /\ sp = last.cpu.sp
  /\ pc = last.cpu.pc /\ flags = last.cpu.flags /\ cycles = last.cpu.cycles
  /\ memory = last.cpu.memory

\* the last instruction was an RTS with 0xFFFF on top of the stack
RtsPopsTop ==
  /\ Decoded /\ last.instruction.opcode = "RTS"
  /\ Read(last.cpu.memory, StackAt((last.cpu.sp + 1) % 256)) = 255
  /\ Read(last.cpu.memory, StackAt((last.cpu.sp + 2) % 256)) = 255

\* C16: a non-branch, non-jump instruction leaves PC = (PC + width) mod 65536
\* and completes, also when PC + width >= 65536; an RTS that pops 0xFFFF
\* completes with PC = 0x0000.
C16_PcAdvancesModulo ==
  /\ (Decoded /\ last.instruction.opcode \notin (BranchOpcodes \cup JumpOpcodes)) =>
       (Retired /\ pc = (last.cpu.pc + last.instruction.width) % 65536)
  /\ RtsPopsTop => (Retired /\ pc = 0)

\* C17: no step indexes memory outside 0..65535, in decode or in the operand
\* resolver, whatever PC and operand.
C17_MemoryIndexInBounds ==
  panic_message.text # "index out of bounds"

\* C18: a byte at PC outside the 151 defined opcodes fails the step with the
\* unsupported-opcode error naming that byte, leaves the CPU and memory as
\* they were, and ends the run.
C18_UnsupportedOpcodeFails ==
  (last.valid /\ Read(last.cpu.memory, last.cpu.pc) \notin DOMAIN OpcodeTable) =>
    /\ status = "panicked"
    /\ panic_message = PanicMessage("Unsupported instruction decoded",
                                    Read(last.cpu.memory, last.cpu.pc))
    /\ Untouched
    /\ ~ENABLED LoadAndExecute

\* C19: a step either retires its instruction or fails leaving registers,
\* flags, cycles and memory exactly as they were before it.
C19_StepAllOrNothing ==
  last.valid => (Retired \/ (status = "panicked" /\ Untouched))

\* the last instruction decoded as BRK
BrkDecoded == Decoded /\ last.instruction.opcode = "BRK"

\* C20 as stated: BRK pushes the high then the low byte of PC + 2, pushes
\* pack(P) | 0x10, sets InterruptDisable, loads PC from 0xFFFE/0xFFFF and
\* adds 7 cycles.
C20_BrkInterrupts ==
  BrkDecoded =>
    /\ Retired
    /\ Read(memory, StackAt(last.cpu.sp)) = ReturnAddress \div 256
    /\ Read(memory, StackAt((last.cpu.sp + 255) % 256)) = ReturnAddress % 256
    /\ Read(memory, StackAt((last.cpu.sp + 254) % 256)) = BitOr(as_byte(last.cpu.flags), 16)
    /\ sp = (last.cpu.sp + 253) % 256
    /\ flags.interrupt_disable
    /\ pc = Word(Read(last.cpu.memory, 65534), Read(last.cpu.memory, 65535))
    /\ cycles = last.cpu.cycles + 7

\* C20 as amended: byte 0x00 decodes as BRK (Implied, 1 byte, 7 cycles) but
\* executing it fails with "Unsupported instruction executed", and registers,
\* flags, SP, PC, cycles and memory stay as they were.
C20_BrkNotImplemented ==
  BrkDecoded =>
    /\ last.instruction.opcode_byte = 0
    /\ last.instruction.addressing_mode = "Implied"
    /\ last.instruction.width = 1 /\ last.instruction.cycles = 7
    /\ status = "panicked"
    /\ panic_message = PanicMessage("Unsupported instruction executed", -1)
    /\ Untouched

\* BRK at 0xC000 has been decoded and has failed in execute_instruction
C20_Witness ==
  /\ BrkDecoded /\ last.cpu.pc = 49152 /\ Read(last.cpu.memory, 49152) = 0
  /\ status = "panicked" /\ panic_message.text = "Unsupported instruction executed"
  /\ pc = 49152 /\ cycles = 7

\* the two failures of the operand resolver
UnresolvableOperand ==
  {"Cannot resolve operand for addressing mode",
   "Can't resolve a memory address for addressing mode"}

\* C21: no decoded instruction makes execute_instruction ask the resolver
\* for a value in Implied mode or for an address in Accumulator, Implied or
\* Immediate mode: the step never fails with an unresolvable operand.
C21_OperandAlwaysResolvable ==
  panic_message.text \notin UnresolvableOperand

\* a shift on the accumulator has retired
C21_Witness ==
  /\ Retired /\ last.instruction.addressing_mode = "Accumulator"
  /\ last.instruction.opcode \in {"ASL", "LSR", "ROL", "ROR"}
  /\ pc = (last.cpu.pc + 1) % 65536

\* C22: JMP abs T and JSR T leave PC = T for every T, change no register
\* other than PC (and SP for JSR), and add 3 and 6 cycles.
C22_JumpToAnyTarget ==
  (Decoded /\ last.instruction.opcode_byte \in JumpBytes) =>
    /\ Retired
    /\ pc = Word(LastData.lo, LastData.hi)
    /\ a = last.cpu.a /\ x = last.cpu.x /\ y = last.cpu.y /\ flags = last.cpu.flags
    /\ last.instruction.opcode = "JMP" =>
         sp = last.cpu.sp /\ cycles = last.cpu.cycles + 3
    /\ last.instruction.opcode = "JSR" =>
         sp = (last.cpu.sp + 254) % 256 /\ cycles = last.cpu.cycles + 6

\* the byte n places above the stack pointer the last step started from
Stack(n) == Read(last.cpu.memory, StackAt((last.cpu.sp + n) % 256))

\* C23: RTI pops P, PC low, PC high: the flags are those of the popped P
\* with B cleared, PC is exactly word(lo, hi) for every popped word, 0x0000
\* included, SP goes up by 3 modulo 256 and cycles by 6.
C23_RtiRestores ==
  (Decoded /\ last.instruction.opcode = "RTI") =>
    /\ Retired
    /\ flags = [set_from_byte(Stack(1)) EXCEPT !.break_command = FALSE]
    /\ pc = Word(Stack(2), Stack(3))
    /\ sp = (last.cpu.sp + 3) % 256
    /\ cycles = last.cpu.cycles + 6

\* the last instruction was the second of a pair, straight after the first
After(first, second) ==
  /\ Decoded /\ last.instruction.opcode = second
  /\ last.previous.valid /\ last.previous.instruction.opcode = first

\* C24: PHP writes pack(P) with bits 4 and 5 set whatever B is; PLP straight
\* after PHP restores C, Z, I, D, V and N, leaves B cleared and leaves SP as
\* it was before the PHP.
C24_PhpThenPlp ==
  /\ (Decoded /\ last.instruction.opcode = "PHP") =>
       Read(memory, StackAt(last.cpu.sp)) = BitOr(as_byte(last.cpu.flags), 48)
  /\ After("PHP", "PLP") =>
       /\ Retired
       /\ flags = [last.previous.cpu.flags EXCEPT !.break_command = FALSE]
       /\ sp = last.previous.cpu.sp

\* PLP has restored flags that had B set before the PHP
C24_Witness ==
  /\ After("PHP", "PLP") /\ Retired
  /\ last.previous.cpu.flags.break_command /\ last.previous.cpu.flags.decimal_mode
  /\ ~flags.break_command /\ flags.decimal_mode
  /\ sp = last.previous.cpu.sp

\* C25: PHA writes A at 0x0100|SP and PLA loads A from 0x0100|(SP+1) with
\* Z and N set from it, so PLA after PHA, with SP and the pushed byte left
\* alone in between, restores A and leaves SP as it was before the PHA.
C25_PhaThenPla ==
  /\ (Decoded /\ last.instruction.opcode = "PHA") =>
       /\ Read(memory, StackAt(last.cpu.sp)) = last.cpu.a
       /\ Retired => sp = (last.cpu.sp + 255) % 256
  /\ (Retired /\ last.instruction.opcode = "PLA") =>
       /\ a = Stack(1)
       /\ sp = (last.cpu.sp + 1) % 256
       /\ flags = [last.cpu.flags EXCEPT !.zero = (a = 0), !.negative = (a >= 128)]
  /\ After("PHA", "PLA") =>
       /\ Retired
       /\ a = last.previous.cpu.a
       /\ sp = last.previous.cpu.sp

\* PLA has restored a negative accumulator pushed by the PHA before it
C25_Witness ==
  /\ After("PHA", "PLA") /\ Retired
  /\ last.previous.cpu.a = 200 /\ a = 200 /\ flags.negative /\ ~flags.zero
  /\ sp = last.previous.cpu.sp

\* C26: packing the flags unpacked from a byte b yields b | 0x20: bit 5 is
\* always 1, bit 4 is the B flag, and bits 7, 6, 3, 2, 1, 0 are N, V, D, I, Z,
\* C.  Stated of the flags of every state and of every byte that unpacks to
\* them.
C26_PackUnpack ==
  /\ \A b \in Byte : flags = from_byte(b) => as_byte(from_byte(b)) = BitOr(b, 32)
  /\ Bit(as_byte(flags), 5) = 1
  /\ Bit(as_byte(flags), 4) = AsU8(flags.break_command)
  /\ Bit(as_byte(flags), 7) = AsU8(flags.negative)
  /\ Bit(as_byte(flags), 6) = AsU8(flags.overflow)
  /\ Bit(as_byte(flags), 3) = AsU8(flags.decimal_mode)
  /\ Bit(as_byte(flags), 2) = AsU8(flags.interrupt_disable)
  /\ Bit(as_byte(flags), 1) = AsU8(flags.zero)
  /\ Bit(as_byte(flags), 0) = AsU8(flags.carry)

\* PHP has pushed the flags unpacked from 0xCB, which pack to 0xEB
C26_Witness ==
  /\ Retired /\ last.instruction.opcode = "PHP"
  /\ last.cpu.flags = from_byte(203) /\ flags = from_byte(203)
  /\ as_byte(flags) = 235
  /\ Read(memory, StackAt(last.cpu.sp)) = 251

\* the addressing modes whose reads pay for a page crossing
PenaltyModes == {"AbsoluteIndexedX", "AbsoluteIndexedY", "IndirectIndexed"}

\* C27: the cycle counter never decreases, and a retired instruction adds its
\* base cycles plus a page-cross penalty (0 or 1, reads in the indexed modes
\* only) plus a branch penalty (0 when not taken, 1 or 2 when taken) and
\* nothing else: between 2 and 8 cycles in all.
C27_CyclesAccounted ==
  last.valid =>
    /\ cycles >= last.cpu.cycles
    /\ Retired =>
         LET opcode == last.instruction.opcode
             extra == cycles - last.cpu.cycles - last.instruction.cycles
         IN  /\ cycles - last.cpu.cycles \in 2..8
             /\ IF opcode \in BranchOpcodes
                THEN IF BranchCondition(opcode, last.cpu.flags) THEN extra \in {1, 2} ELSE extra = 0
                ELSE IF opcode \in ReadOpcodes /\ LastMode \in PenaltyModes
                THEN extra \in {0, 1}
                ELSE extra = 0

\* LDA abs,X has retired with the page-cross cycle on top of its base 4
C27_Witness ==
  /\ Retired /\ last.instruction.opcode = "LDA" /\ LastMode = "AbsoluteIndexedX"
  /\ last.instruction.cycles = 4 /\ cycles = last.cpu.cycles + 5

\* the step the last instruction takes from the state that differs from its
\* own only in the DecimalMode flag
DecimalTwin ==
  load_and_execute([last.cpu EXCEPT !.flags.decimal_mode = ~last.cpu.flags.decimal_mode])

\* C28: D has no influence on arithmetic: ADC and SBC from two states that
\* differ only in D give the same A, C, V, N, Z, PC and cycles and leave D as
\* it was; D changes only through SED, CLD, PLP and RTI.
C28_DecimalModeIgnored ==
  /\ (Decoded /\ last.instruction.opcode \in {"ADC", "SBC"}) =>
       /\ DecimalTwin.status = status
       /\ DecimalTwin.a = a
       /\ DecimalTwin.flags.carry = flags.carry
       /\ DecimalTwin.flags.overflow = flags.overflow
       /\ DecimalTwin.flags.negative = flags.negative
       /\ DecimalTwin.flags.zero = flags.zero
       /\ DecimalTwin.pc = pc
       /\ DecimalTwin.cycles = cycles
       /\ DecimalTwin.flags.decimal_mode = ~last.cpu.flags.decimal_mode
       /\ flags.decimal_mode = last.cpu.flags.decimal_mode
  /\ (last.valid /\ flags.decimal_mode # last.cpu.flags.decimal_mode) =>
       (Decoded /\ last.instruction.opcode \in {"SED", "CLD", "PLP", "RTI"})

\* ADC #$01 has retired with D set and A = 0x09, giving the binary sum 0x0A
C28_Witness ==
  /\ Retired /\ last.instruction.opcode = "ADC" /\ last.cpu.flags.decimal_mode
  /\ last.cpu.a = 9 /\ LastData.lo = 1 /\ ~last.cpu.flags.carry
  /\ a = 10 /\ flags.decimal_mode

\* the register a compare instruction compares
Compared(opcode) ==
  CASE opcode = "CMP" -> last.cpu.a
    [] opcode = "CPX" -> last.cpu.x
    [] opcode = "CPY" -> last.cpu.y

\* C29: CMP, CPX and CPY of register r with operand m set Z = (r = m),
\* N = bit 7 of (r - m) mod 256 and C = (r >= m), and leave A, X, Y, SP, the
\* other flags and memory unchanged.
C29_CompareFlags ==
  (Retired /\ last.instruction.opcode \in {"CMP", "CPX", "CPY"}) =>
    LET r == Compared(last.instruction.opcode)
        m == LastOperand
    IN  /\ flags = [last.cpu.flags EXCEPT !.zero = (r = m),
                                          !.negative = ((r - m + 256) % 256 >= 128),
                                          !.carry = (r >= m)]
        /\ a = last.cpu.a /\ x = last.cpu.x /\ y = last.cpu.y /\ sp = last.cpu.sp
        /\ memory = last.cpu.memory

\* CPX #$80 has retired with X = 0x7F: not equal, difference 0xFF, borrow
C29_Witness ==
  /\ Retired /\ last.instruction.opcode = "CPX" /\ LastMode = "Immediate"
  /\ last.cpu.x = 127 /\ LastData.lo = 128
  /\ ~flags.zero /\ flags.negative /\ ~flags.carry /\ x = 127

\* the effective address of the last instruction's memory target
RotateAddress(cpu, instruction) ==
  LET data == instruction.data
      mode == instruction.addressing_mode
  IN  CASE mode = "ZeroPage" -> data.lo
        [] mode = "ZeroPageIndexedX" -> (data.lo + cpu.x) % 256
        [] mode = "Absolute" -> Word(data.lo, data.hi)
        [] mode = "AbsoluteIndexedX" -> (Word(data.lo, data.hi) + cpu.x) % 65536

\* the target of a rotate that starts from cpu, read in the CPU now
RotateTargetIn(now_a, now_memory, cpu, instruction) ==
  IF instruction.addressing_mode = "Accumulator" THEN now_a
  ELSE Read(now_memory, RotateAddress(cpu, instruction))

\* C30: ROL gives t' = ((t << 1) | oldC) mod 256 with C' = bit 7 of t, ROR
\* gives t' = (t >> 1) | (oldC << 7) with C' = bit 0 of t, N and Z follow t',
\* the target is A in Accumulator mode and mem[effective address] otherwise,
\* and ROL followed by ROR on the same target restores target and carry.
C30_RotateThroughCarry ==
  /\ (Decoded /\ last.instruction.opcode \in {"ROL", "ROR"}) =>
       LET t == RotateTargetIn(last.cpu.a, last.cpu.memory, last.cpu, last.instruction)
           after == RotateTargetIn(a, memory, last.cpu, last.instruction)
           oldC == AsU8(last.cpu.flags.carry)
       IN  /\ Retired
           /\ last.instruction.opcode = "ROL" =>
                after = (t * 2 + oldC) % 256 /\ flags.carry = (t >= 128)
           /\ last.instruction.opcode = "ROR" =>
                after = (t \div 2) + oldC * 128 /\ flags.carry = (t % 2 = 1)
           /\ flags.zero = (after = 0) /\ flags.negative = (after >= 128)
  /\ (After("ROL", "ROR")
        /\ last.instruction.addressing_mode = last.previous.instruction.addressing_mode
        /\ last.instruction.data = last.previous.instruction.data) =>
       /\ Retired
       /\ RotateTargetIn(a, memory, last.cpu, last.instruction)
            = RotateTargetIn(last.previous.cpu.a, last.previous.cpu.memory,
                             last.previous.cpu, last.previous.instruction)
       /\ flags.carry = last.previous.cpu.flags.carry

\* a 16-bit value as exactly four uppercase hex digits
FourDigits(v) ==
  <<HexDigit[(v \div 4096) + 1], HexDigit[((v \div 256) % 16) + 1],
    HexDigit[((v \div 16) % 16) + 1], HexDigit[(v % 16) + 1]>>

\* C31: every rendered trace line starts with PC as exactly four uppercase
\* hex digits (zero-padded below 0x1000) and two spaces, and its state block
\* "A:" starts at column 48, for every PC.
C31_TraceLayout ==
  (last.valid /\ last.line.ok) =>
    LET text == last.line.text
    IN  /\ Len(text) >= 50
        /\ SubSeq(text, 1, 4) = FourDigits(last.cpu.pc)
        /\ SubSeq(text, 5, 6) = <<" ", " ">>
        /\ SubSeq(text, 49, 50) = <<"A", ":">>

\* ------------------------------------------------------ the constructor
\* CPU6502::new over a buffer holding one instruction at address 0, where the
\* constructed PC points
NewOperands == {0, 1, 127, 128, 255}

InitNew ==
  \E b \in Builds, opcode_byte \in Byte, lo \in NewOperands :
    Harness(CPU6502_new(Program(0, opcode_byte, lo, 0)), b)

SpecNew == InitNew /\ [][Next]_vars

\* the CPU as constructed, before any instruction has executed
Fresh == line_no = 0 /\ ~last.valid

\* C33: a freshly constructed CPU has SP = 0xFD and A = X = Y = 0
C33_ResetStackPointer == Fresh => (sp = 253 /\ a = 0 /\ x = 0 /\ y = 0)

\* ------------------------------------------------------- the Break flag
\* from the reset state (P = 0x24): every opcode byte, then PHP, PLP or RTI,
\* over a stack whose top is a status byte with bit 4 clear or set and whose
\* next two bytes are the return address 0xC001
BreakStatus == {0, 16, 32, 48, 207, 223, 239, 255}

BreakSeconds == {8, 40, 64}

InitBreak ==
  \E b \in Builds, first \in Byte, second \in BreakSeconds, byte \in BreakStatus :
    Harness(Reset(Stacked(load_memory(<<>>, 49152, <<first, second>>), 253, byte, 1, 192)), b)

SpecBreak == InitBreak /\ [][Next]_vars

\* C34: from the reset state the Break flag is false in every state, so the
\* packed status has bit 4 clear and bit 5 set; a status byte with bit 4 set
\* exists only as the byte PHP writes to the stack, the packed status with
\* bit 4 added.
C34_BreakOnlyOnStack ==
  /\ ~flags.break_command
  /\ Bit(as_byte(flags), 4) = 0
  /\ Bit(as_byte(flags), 5) = 1
  /\ (Decoded /\ last.instruction.opcode = "PHP") =>
       LET pushed == Read(memory, StackAt(last.cpu.sp))
       IN  /\ Bit(pushed, 4) = 1 /\ Bit(pushed, 5) = 1
           /\ pushed = as_byte(last.cpu.flags) + 16

\* RTI pulled a status byte with bit 4 set and left B clear, and the PHP at
\* the return address pushed the status with bit 4 set
C34_Witness ==
  /\ After("RTI", "PHP") /\ Retired
  /\ Bit(Read(last.previous.cpu.memory, StackAt((last.previous.cpu.sp + 1) % 256)), 4) = 1
  /\ ~last.cpu.flags.break_command /\ last.cpu.flags.negative
  /\ ~flags.break_command
  /\ Bit(Read(memory, StackAt(last.cpu.sp)), 4) = 1

\* ---------------------------------------------------- the memory frame
\* the addresses whose byte the last step changed
Changed ==
  {addr \in (DOMAIN memory) \cup (DOMAIN last.cpu.memory) :
     Read(memory, addr) # Read(last.cpu.memory, addr)}

\* the effective address of a memory operand as the addressing modes define it
EffectiveAddress(cpu, instruction) ==
  LET mode == instruction.addressing_mode
      lo == instruction.data.lo
      hi == instruction.data.hi
      zp == (lo + cpu.x) % 256
  IN  CASE mode = "ZeroPage" -> lo
        [] mode = "ZeroPageIndexedX" -> zp
        [] mode = "ZeroPageIndexedY" -> (lo + cpu.y) % 256
        [] mode = "Absolute" -> Word(lo, hi)
        [] mode = "AbsoluteIndexedX" -> (Word(lo, hi) + cpu.x) % 65536
        [] mode = "AbsoluteIndexedY" -> (Word(lo, hi) + cpu.y) % 65536
        [] mode = "IndexedIndirect" ->
             Word(Read(cpu.memory, zp), Read(cpu.memory, (zp + 1) % 256))
        [] mode = "IndirectIndexed" ->
             (Word(Read(cpu.memory, lo), Read(cpu.memory, (lo + 1) % 256)) + cpu.y) % 65536
        [] OTHER -> -1

StoreOpcodes == {"STA", "STX", "STY"}

\* the last instruction is a store or a read-modify-write of a memory operand
WritesOperand ==
  \/ last.instruction.opcode \in StoreOpcodes \cup {"INC", "DEC"}
  \/ /\ last.instruction.opcode \in {"ASL", "LSR", "ROL", "ROR"}
     /\ LastMode # "Accumulator"

\* C35: a step changes memory only for a store, INC, DEC, a memory-mode
\* shift or rotate, PHA, PHP or JSR. A store or read-modify-write changes at
\* most the byte at its effective address, PHA and PHP at most the byte at
\* 0x0100 + SP, JSR at most two bytes, every stack write is inside
\* 0x0100..0x01FF, and a store leaves the flags as they were.
C35_MemoryFrame ==
  last.valid =>
    /\ ~last.instruction.ok => Changed = {}
    /\ Decoded =>
         LET opcode == last.instruction.opcode
         IN  /\ (~WritesOperand /\ opcode \notin {"PHA", "PHP", "JSR"}) => Changed = {}
             /\ WritesOperand =>
                  Changed \subseteq {EffectiveAddress(last.cpu, last.instruction)}
             /\ opcode \in {"PHA", "PHP"} => Changed \subseteq {StackAt(last.cpu.sp)}
             /\ opcode = "JSR" =>
                  Changed \subseteq {StackAt(last.cpu.sp), StackAt((last.cpu.sp + 255) % 256)}
             /\ opcode \in {"PHA", "PHP", "JSR"} => Changed \subseteq 256..511
             /\ opcode \in StoreOpcodes => flags = last.cpu.flags

\* ------------------------------------------------------- nested calls
\* n nested subroutines: the call site at base calls site 1, site k calls
\* site k + 1 and returns with the RTS after its JSR, site n is an RTS
NestBases == {49152, 33021}

NestStrides == {16, 259}

NestSPs == {1, 2, 3, 4, 5, 6, 7, 128, 253, 255}

NestSite(base, stride, k) == base + stride * k

RECURSIVE Nested(_, _, _, _, _)
Nested(mem, base, stride, n, k) ==
  IF k = n THEN load_memory(mem, NestSite(base, stride, n), <<96>>)
  ELSE LET target == to_bytes_from_address(NestSite(base, stride, k + 1))
       IN  Nested(load_memory(mem, NestSite(base, stride, k), <<32, target.lo, target.hi, 96>>),
                  base, stride, n, k + 1)

InitNest ==
  \E b \in Builds, n \in 1..NestDepth, base \in NestBases, stride \in NestStrides,
     s \in NestSPs :
    HarnessOver([Reset(Nested(<<>>, base, stride, n, 0)) EXCEPT !.pc = base, !.sp = s],
                b, 2 * n)

SpecNest == InitNest /\ [][Next]_vars

\* the record of the load_and_execute k steps before the last one
RECURSIVE Nth(_)
Nth(k) == IF k = 0 THEN last ELSE Nth(k - 1).previous

\* the PC after the load_and_execute k steps before the last one
PcAfter(k) == IF k = 0 THEN pc ELSE Nth(k - 1).cpu.pc

\* the last n + m instructions were n JSRs and then m RTSs
CallsThenReturns(n, m) ==
  /\ line_no >= n + m
  /\ \A k \in 0..(n + m - 1) :
       /\ Nth(k).instruction.ok
       /\ Nth(k).instruction.opcode = IF k < m THEN "RTS" ELSE "JSR"

\* C36: n JSRs in sequence followed by RTSs, for a depth n of at most 128
\* calls (two bytes each in the 256-byte stack page, whatever SP they start
\* from): every JSR and RTS retires, every RTS lands on the byte after its
\* matching JSR, the innermost call first, and after the n-th RTS SP is what
\* it was before the first JSR.
C36_CallsNestLifo ==
  \A n \in 1..NestDepth, m \in 0..NestDepth :
    (m <= n /\ n <= 128 /\ CallsThenReturns(n, m)) =>
      /\ status = "running"
      /\ \A i \in 1..m : PcAfter(m - i) = Nth(m + i - 1).cpu.pc + 3
      /\ m = n => sp = Nth(2 * n - 1).cpu.sp
====
